---- MODULE Spec2Model ----
(***************************************************************************)
(* Fin-Collect (package CXq_data): the partition writer, the DuckDB view   *)
(* layer over the Hive-partitioned files, and the validation checks.       *)
(*                                                                         *)
(* Dates are day numbers counted from Monday 2023-12-25 (day 0), so that   *)
(* 2024-01-01 is day 7 and 2024-01-02 .. 05, 08 are days 8 .. 11, 14.      *)
(* Prices are integers (hundredths of a currency unit); every price the    *)
(* model uses is exactly representable as a 64-bit float.                  *)
(***************************************************************************)
EXTENDS Integers, Sequences, FiniteSets, Bags, TLC

VARIABLES
    files,      \* storage root: path of a data file |-> the rows stored in it
    dirs,       \* storage root: the directories that exist (as paths)
    views,      \* relations of the DuckDB catalog file
    ncalls,     \* write_partitioned calls made on the storage root so far
    lastCall,   \* the most recent write_partitioned call: argument, result, and
                \* whether it repeated the call before it / dropped stored rows
    lastRead,   \* result of the query made since the last write, if any
    manager,    \* one DuckDBManager: its _conn handle, the connections it has
                \* opened and which of them are still open, the connect()
                \* scopes entered and not yet left, and the exception the last
                \* scope exit raised
    df,         \* validation: the rows handed to a check
    today,      \* validation: datetime.date.today()
    report,     \* validation: the CheckReport whose overall_status is read
    pc,         \* validation: "start" before the function ran, "done" after
    result      \* validation: what the function returned

vars ==
    <<files, dirs, views, ncalls, lastCall, lastRead, manager, df, today, report,
      pc, result>>

-----------------------------------------------------------------------------
(* Bounds of the model *)

\* longest row set handed to one write_partitioned call
MaxBatch == 2
\* write_partitioned calls on one storage root
MaxCalls == 3
\* the days the validated series may cover: FirstDay .. LastDay
\* (day 7 is Monday 2024-01-01)
FirstDay == 7
LastDay == 18
\* longest row set handed to the price checks
MaxRows == 2
\* longest row set handed to the staleness check
MaxStaleRows == 2
\* longest result list of a CheckReport
MaxResults == 4
\* longest row set handed to run_all_checks
MaxRunRows == 2
\* connections one DuckDBManager opens
MaxConnections == 4
\* wait() and reset_daily() calls made on one RateLimiter
MaxLimiterCalls == 5

-----------------------------------------------------------------------------
(* Small helpers *)

Range(s) == {s[i] : i \in 1..Len(s)}

SeqsUpTo(S, n) == UNION {[1..k -> S] : k \in 0..n}

\* the rows of a table as a bag: row |-> number of occurrences
BagOfSeq(s) == [x \in Range(s) |-> Cardinality({i \in 1..Len(s) : s[i] = x})]

\* all orders in which the elements of a finite set can be enumerated
Orders(S) == {o \in [1..Cardinality(S) -> S] : Range(o) = S}

\* no query made since the last write
NoRead ==
    [done |-> FALSE, raised |-> FALSE, views |-> {}, created |-> <<>>,
     table |-> [ok |-> FALSE, rows |-> EmptyBag], infoDone |-> FALSE, info |-> <<>>]

-----------------------------------------------------------------------------
(* Calendar: datetime.date on day numbers *)

\* datetime.date.weekday(): 0 = Monday .. 6 = Sunday
Weekday(d) == d % 7

IsLeap(y) == (y % 4 = 0 /\ y % 100 # 0) \/ y % 400 = 0

DaysInYear(y) == IF IsLeap(y) THEN 366 ELSE 365

RECURSIVE YearFrom(_, _)
YearFrom(y, d) == IF d < DaysInYear(y) THEN y ELSE YearFrom(y + 1, d - DaysInYear(y))

\* pl.col("date").dt.year(): day 0 is 2023-12-25, day 7 is 2024-01-01
YearOf(d) == IF d < 7 THEN 2023 ELSE YearFrom(2024, d - 7)

-----------------------------------------------------------------------------
(* Canonical schema and the partition layout *)

DAILY_OHLCV_COLUMNS ==
    <<"date", "open", "high", "low", "close", "adjusted_close", "volume",
      "source", "ingested_at">>

PARTITION_COLUMNS == <<"symbol", "source", "year">>

ColumnsWithSource == DAILY_OHLCV_COLUMNS

_PARQUET_COLUMNS ==
    SelectSeq(DAILY_OHLCV_COLUMNS, LAMBDA c : c \notin Range(PARTITION_COLUMNS))

Row(date, o, h, l, c, v, source, symbol) ==
    [date |-> date, open |-> o, high |-> h, low |-> l, close |-> c,
     adjusted_close |-> c, volume |-> v, source |-> source,
     ingested_at |-> 1705312800, symbol |-> symbol]

\* the rows the write calls draw their batches from: two rows of one group,
\* one of the same symbol and source in another year, one of another symbol
\* and source
RowPool ==
    { Row(4, 14800, 14900, 14700, 14850, 900000, "yfinance", "AAPL"),
      Row(8, 15000, 15200, 14900, 15100, 1000000, "yfinance", "AAPL"),
      Row(9, 15100, 15300, 15000, 14950, 1100000, "yfinance", "AAPL"),
      Row(8, 37000, 37500, 36900, 37100, 2000000, "stooq", "MSFT") }

Batches == SeqsUpTo(RowPool, MaxBatch)

Digits == <<"0", "1", "2", "3", "4", "5", "6", "7", "8", "9">>

\* str(int), as the f-string does it: the decimal digits, most significant first
RECURSIVE FormatInt(_)
FormatInt(n) ==
    IF n < 10 THEN <<Digits[n + 1]>>
    ELSE FormatInt(n \div 10) \o <<Digits[(n % 10) + 1]>>

DigitValue(ch) == CHOOSE i \in 0..9 : Digits[i + 1] = ch

\* CAST(text AS INTEGER), as hive_types asks for the year segment
RECURSIVE ParseInt(_)
ParseInt(s) ==
    IF Len(s) = 0 THEN 0
    ELSE 10 * ParseInt(SubSeq(s, 1, Len(s) - 1)) + DigitValue(s[Len(s)])

\* f"{column}={value}": one Hive path segment
HiveSegment(column, text) == [column |-> column, text |-> text]

\* a path segment that is a plain name
PlainSegment(name) == [column |-> "", text |-> name]

\* processed_dir / dataset / symbol=S / source=SRC / year=Y
PartitionDir(dataset, key) ==
    <<PlainSegment(dataset),
      HiveSegment("symbol", key[1]),
      HiveSegment("source", key[2]),
      HiveSegment("year", FormatInt(key[3]))>>

OutPath(dataset, key) ==
    Append(PartitionDir(dataset, key), PlainSegment("data.parquet"))

\* the directories mkdir(parents=True, exist_ok=True) makes sure exist, the
\* storage root (the empty path) among them
Parents(dir) == {SubSeq(dir, 1, n) : n \in 0..Len(dir)}

\* df.with_columns(pl.col("date").dt.year().alias("year"))
WithYear(rows) ==
    [i \in 1..Len(rows) |->
        [c \in DOMAIN rows[i] \cup {"year"} |->
            IF c = "year" THEN YearOf(rows[i].date) ELSE rows[i][c]]]

KeyOfRowOfOneYear(r) == <<r.symbol, r.source, 2024>>

KeyOfRow(r) == <<r.symbol, r.source, r.year>>

\* the group keys df.group_by(["symbol", "source", "year"]) yields
GroupKeys(rows) == {KeyOfRow(rows[i]) : i \in 1..Len(rows)}

\* the rows of one group, in the order of the input
GroupRowsBySymbol(rows, key) == SelectSeq(rows, LAMBDA r : r.symbol = key[1])

GroupRows(rows, key) == SelectSeq(rows, LAMBDA r : KeyOfRow(r) = key)

\* group_df.select(_PARQUET_COLUMNS)
SelectParquetColumns(rows) ==
    [i \in 1..Len(rows) |-> [c \in Range(_PARQUET_COLUMNS) |-> rows[i][c]]]

\* write_df.write_parquet(out_path): the file at out_path is replaced
WriteParquetAppending(fs, path, rows) ==
    IF path \in DOMAIN fs
    THEN [fs EXCEPT ![path] = fs[path] \o rows]
    ELSE [p \in DOMAIN fs \cup {path} |-> IF p = path THEN rows ELSE fs[p]]

\* an upsert in place of a replacement: rows stored before and absent from
\* the new content stay
WriteParquetMerging(fs, path, rows) ==
    IF path \in DOMAIN fs
    THEN [fs EXCEPT ![path] = SelectSeq(fs[path], LAMBDA r : r \notin Range(rows)) \o rows]
    ELSE [p \in DOMAIN fs \cup {path} |-> IF p = path THEN rows ELSE fs[p]]

WriteParquet(fs, path, rows) ==
    [p \in DOMAIN fs \cup {path} |-> IF p = path THEN rows ELSE fs[p]]

\* the loop of write_partitioned over the groups, in the order group_by
\* yields them
RECURSIVE WriteGroups(_, _, _, _)
WriteGroups(fs, rows, dataset, order) ==
    IF Len(order) = 0 THEN fs
    ELSE WriteGroups(
            WriteParquet(fs, OutPath(dataset, Head(order)),
                         SelectParquetColumns(GroupRows(rows, Head(order)))),
            rows, dataset, Tail(order))

WrittenPaths(dataset, order) ==
    [i \in 1..Len(order) |-> OutPath(dataset, order[i])]

\* no exception left the call
NoError == [kind |-> "", path |-> <<>>]

\* write_partitioned(df, processed_dir): group_by gives the groups in an
\* order of its own choosing
WritePartitioned(batch) ==
    /\ ncalls < MaxCalls
    /\ LET rows == WithYear(batch)
           dataset == "daily_ohlcv"
       IN \E order \in Orders(GroupKeys(rows)) :
            LET after == WriteGroups(files, rows, dataset, order)
                written == WrittenPaths(dataset, order)
            IN /\ files' = after
               /\ dirs' = dirs \cup UNION {Parents(PartitionDir(dataset, k)) :
                                             k \in GroupKeys(rows)}
               /\ lastCall' =
                    [df |-> batch,
                     written |-> written,
                     repeat |-> ncalls > 0 /\ batch = lastCall.df,
                     dropped |-> {p \in Range(written) :
                                    /\ p \in DOMAIN files
                                    /\ Range(files[p]) \ Range(after[p]) # {}},
                     error |-> NoError]
    /\ ncalls' = ncalls + 1
    /\ lastRead' = NoRead
    /\ UNCHANGED <<views, manager, df, today, report, pc, result>>

\* write_partitioned(df, processed_dir) when mkdir or write_parquet raises
\* for the group at position k of the iteration: the groups before it are
\* written, the failing group's file is untouched (the failure came before
\* the file was opened) or holds the part written so far, the groups after it
\* are not reached, and the exception of the failed call leaves
\* write_partitioned as it is (no except clause); whether its text names the
\* file is the raising library's business.
WritePartitionedFails(batch) ==
    /\ ncalls < MaxCalls
    /\ LET rows == WithYear(batch)
           dataset == "daily_ohlcv"
       IN \E order \in Orders(GroupKeys(rows)) : \E k \in 1..Len(order) :
            LET done == SubSeq(order, 1, k - 1)
                before == WriteGroups(files, rows, dataset, done)
                path == OutPath(dataset, order[k])
                content == SelectParquetColumns(GroupRows(rows, order[k]))
                dir == PartitionDir(dataset, order[k])
            IN \E opened \in BOOLEAN, names_file \in BOOLEAN :
                 \E n \in 0..(Len(content) - 1), made \in 0..(Len(dir) + 1) :
                 /\ opened => made = Len(dir) + 1
                 /\ ~opened => n = 0
                 /\ files' = IF opened
                             THEN WriteParquet(before, path, SubSeq(content, 1, n))
                             ELSE before
                 /\ dirs' = dirs
                            \cup UNION {Parents(PartitionDir(dataset, done[i])) :
                                          i \in 1..Len(done)}
                            \cup {SubSeq(dir, 1, m) : m \in 0..(made - 1)}
                 /\ lastCall' =
                      [df |-> batch,
                       written |-> <<>>,
                       repeat |-> ncalls > 0 /\ batch = lastCall.df,
                       dropped |-> {},
                       error |-> [kind |-> "OSError",
                                  path |-> IF names_file THEN path ELSE <<>>]]
    /\ ncalls' = ncalls + 1
    /\ lastRead' = NoRead
    /\ UNCHANGED <<views, manager, df, today, report, pc, result>>

-----------------------------------------------------------------------------
(* Two write_partitioned invocations on one storage root at the same time *)

Writers == {"A", "B"}

OtherWriter(w) == IF w = "A" THEN "B" ELSE "A"

\* a writer before its call
Idle == [step |-> "start", order |-> <<>>, i |-> 0, mixed |-> FALSE]

\* a file two writers wrote into at the same time without either's bytes
\* winning as a whole: no readable row set
TornFile == <<[torn |-> TRUE]>>

\* the group the writer is at, its directory, its file and its rows
CurrentKey(w) == pc[w].order[pc[w].i]

CurrentPath(w) == OutPath("daily_ohlcv", CurrentKey(w))

ContentOf(w, key) == SelectParquetColumns(GroupRows(WithYear(df[w]), key))

\* w has the file at path open for writing
IsWriting(w, path) == pc[w].step = "write" /\ CurrentPath(w) = path

\* df.group_by([...]) of the call of w: the groups in some order; a frame
\* without rows ends the call at once
StartWrite(w) ==
    /\ pc[w].step = "start"
    /\ \E order \in Orders(GroupKeys(WithYear(df[w]))) :
          pc' = [pc EXCEPT ![w] = [step |-> IF Len(order) = 0 THEN "done" ELSE "mkdir",
                                   order |-> order, i |-> 1, mixed |-> FALSE]]
    /\ UNCHANGED <<files, dirs, views, ncalls, lastCall, lastRead, manager, df, today,
                   report, result>>

\* partition_dir.mkdir(parents=True, exist_ok=True)
MakePartitionDir(w) ==
    /\ pc[w].step = "mkdir"
    /\ dirs' = dirs \cup Parents(PartitionDir("daily_ohlcv", CurrentKey(w)))
    /\ pc' = [pc EXCEPT ![w].step = "open"]
    /\ UNCHANGED <<files, views, ncalls, lastCall, lastRead, manager, df, today,
                   report, result>>

\* write_parquet opens out_path: the file is created or cut to length 0;
\* a writer that has the same file open from now on shares it
OpenParquet(w) ==
    /\ pc[w].step = "open"
    /\ LET path == CurrentPath(w)
           o == OtherWriter(w)
           shared == IsWriting(o, path)
       IN /\ files' = WriteParquet(files, path, <<>>)
          /\ pc' = [v \in Writers |->
                      IF v = w THEN [pc[w] EXCEPT !.step = "write", !.mixed = shared]
                      ELSE IF shared THEN [pc[v] EXCEPT !.mixed = TRUE]
                      ELSE pc[v]]
    /\ UNCHANGED <<dirs, views, ncalls, lastCall, lastRead, manager, df, today,
                   report, result>>

\* write_parquet writes the row groups and closes the file, written.append
\* and the step to the next group: the file holds the rows of w, or, when
\* another writer had it open meanwhile, what the two sequences of writes
\* into one file left (either row set, or no readable file)
CloseParquet(w) ==
    /\ pc[w].step = "write"
    /\ LET path == CurrentPath(w)
           key == CurrentKey(w)
           outcomes == IF pc[w].mixed
                       THEN {ContentOf(w, key), ContentOf(OtherWriter(w), key), TornFile}
                       ELSE {ContentOf(w, key)}
       IN /\ \E content \in outcomes : files' = WriteParquet(files, path, content)
          /\ result' = [result EXCEPT ![w] = Append(result[w], path)]
    /\ pc' = [pc EXCEPT ![w] = IF pc[w].i = Len(pc[w].order)
                                THEN [pc[w] EXCEPT !.step = "done", !.mixed = FALSE]
                                ELSE [pc[w] EXCEPT !.step = "mkdir", !.i = pc[w].i + 1,
                                                   !.mixed = FALSE]]
    /\ UNCHANGED <<dirs, views, ncalls, lastCall, lastRead, manager, df, today, report>>

\* the frames of the two calls: rows of AAPL from yfinance in 2023 and in
\* 2024, those of B with other volumes than those of A
RaceFrames(volume) ==
    {<<Row(4, 14800, 14900, 14700, 14850, volume, "yfinance", "AAPL"),
       Row(8, 15000, 15200, 14900, 15100, volume, "yfinance", "AAPL")>>,
     <<Row(8, 15000, 15200, 14900, 15100, volume, "yfinance", "AAPL")>>,
     <<>>}

-----------------------------------------------------------------------------
(* DuckDBManager: views over the partition files *)

\* the value read_parquet(hive_partitioning = true) takes from the path for
\* one partition column: the text after "=" of the segment named so
HiveText(path, column) ==
    LET i == CHOOSE j \in 1..Len(path) : path[j].column = column
    IN path[i].text

\* hive_types = {'symbol': VARCHAR, 'source': VARCHAR, 'year': INTEGER}
HiveColumnsShifted(path) ==
    [symbol |-> HiveText(path, "source"),
     source |-> HiveText(path, "symbol"),
     year |-> ParseInt(HiveText(path, "year"))]

HiveColumns(path) ==
    [symbol |-> HiveText(path, "symbol"),
     source |-> HiveText(path, "source"),
     year |-> ParseInt(HiveText(path, "year"))]

\* one stored row as the view shows it: the file's columns and the three
\* columns taken from the path
ViewRow(stored, path) ==
    LET hive == HiveColumns(path)
    IN [c \in DOMAIN stored \cup DOMAIN hive |->
            IF c \in DOMAIN hive THEN hive[c] ELSE stored[c]]

\* the file names the pattern "*.parquet" matches
MatchesParquetGlob(name) == name \in {"data.parquet"}

\* the names that can stand unquoted where the SQL text has {dataset_name}
IsSqlIdentifier(name) == name \in {"daily_ohlcv", "intraday"}

\* dataset_dir.rglob("*.parquet"): the data files below one dataset
\* directory, at any depth
ParquetFilesUnder(fs, dataset) ==
    {p \in DOMAIN fs : /\ Len(p) > 1
                       /\ p[1] = PlainSegment(dataset)
                       /\ MatchesParquetGlob(p[Len(p)].text)}

\* self._processed_dir.iterdir(): the names of the entries of the storage
\* root, files and directories
RootEntries(fs, ds) == {p[1].text : p \in {q \in ds \cup DOMAIN fs : Len(q) = 1}}

\* the loop of create_views over the entries in the order iterdir yields
\* them: an entry that is no directory and a directory without data file are
\* skipped; CREATE OR REPLACE VIEW <name> raises when the name cannot stand
\* as an identifier, and the exception leaves create_views
RECURSIVE CreateViewsLoop(_, _, _, _, _)
CreateViewsLoop(fs, ds, order, catalog, created) ==
    IF Len(order) = 0
    THEN [raised |-> FALSE, created |-> created, catalog |-> catalog]
    ELSE LET dataset_name == Head(order)
         IN IF <<PlainSegment(dataset_name)>> \notin ds
            THEN CreateViewsLoop(fs, ds, Tail(order), catalog, created)
            ELSE IF ParquetFilesUnder(fs, dataset_name) = {}
            THEN CreateViewsLoop(fs, ds, Tail(order), catalog, created)
            ELSE IF ~IsSqlIdentifier(dataset_name)
            THEN [raised |-> TRUE, created |-> <<>>, catalog |-> catalog]
            ELSE CreateViewsLoop(fs, ds, Tail(order), catalog \cup {dataset_name},
                                 Append(created, dataset_name))

\* create_views(): empty list when the storage root does not exist
create_views(fs, ds, catalog, order) ==
    IF <<>> \notin ds
    THEN [raised |-> FALSE, created |-> <<>>, catalog |-> catalog]
    ELSE CreateViewsLoop(fs, ds, order, catalog, <<>>)

RECURSIVE RowsOfFiles(_, _)
RowsOfFiles(fs, paths) ==
    IF paths = {} THEN EmptyBag
    ELSE LET p == CHOOSE q \in paths : TRUE
         IN BagOfSeq([i \in 1..Len(fs[p]) |-> ViewRow(fs[p][i], p)])
            (+) RowsOfFiles(fs, paths \ {p})

\* to_polars("SELECT * FROM <dataset>"): the rows of the relation, or the
\* error of a relation the catalog does not know
SelectAll(fs, catalog, dataset) ==
    IF dataset \in catalog /\ ParquetFilesUnder(fs, dataset) # {}
    THEN [ok |-> TRUE, rows |-> RowsOfFiles(fs, ParquetFilesUnder(fs, dataset))]
    ELSE [ok |-> FALSE, rows |-> EmptyBag]

\* with manager.connect() as db: db.create_views();
\* db.to_polars("SELECT * FROM daily_ohlcv")
QueryDaily ==
    /\ \E order \in Orders(RootEntries(files, dirs)) :
         LET out == create_views(files, dirs, views, order)
         IN /\ views' = out.catalog
            /\ lastRead' =
                 [NoRead EXCEPT
                    !.done = TRUE,
                    !.raised = out.raised,
                    !.views = Range(out.created),
                    !.created = out.created,
                    !.table = IF out.raised THEN NoRead.table
                              ELSE SelectAll(files, out.catalog, "daily_ohlcv")]
    /\ UNCHANGED <<files, dirs, ncalls, lastCall, manager, df, today, report, pc, result>>

\* with manager.connect() as db: db.create_views()
CreateViews ==
    /\ \E order \in Orders(RootEntries(files, dirs)) :
         LET out == create_views(files, dirs, views, order)
         IN /\ views' = out.catalog
            /\ lastRead' = [NoRead EXCEPT !.done = TRUE,
                                          !.raised = out.raised,
                                          !.views = Range(out.created),
                                          !.created = out.created]
    /\ UNCHANGED <<files, dirs, ncalls, lastCall, manager, df, today, report, pc, result>>

\* SELECT COUNT(*) FROM <name>: the rows of all files of the relation
RECURSIVE CountAll(_, _)
CountAll(fs, paths) ==
    IF paths = {} THEN 0
    ELSE LET p == CHOOSE q \in paths : TRUE
         IN Len(fs[p]) + CountAll(fs, paths \ {p})

\* the entry table_info makes for one relation: the counts, or the error
\* text when a query on the relation raises (a view whose pattern matches
\* no file any more)
InfoEntry(fs, name) ==
    IF ParquetFilesUnder(fs, name) = {}
    THEN [keys |-> {"name", "error"}, name |-> name, error |-> "IO Error",
          rows |-> 0, columns |-> 0, column_names |-> <<>>]
    ELSE [keys |-> {"name", "rows", "columns", "column_names"}, name |-> name,
          error |-> "",
          rows |-> CountAll(fs, ParquetFilesUnder(fs, name)),
          columns |-> Len(_PARQUET_COLUMNS \o PARTITION_COLUMNS),
          column_names |-> _PARQUET_COLUMNS \o PARTITION_COLUMNS]

\* a loop without the try: the first failing relation ends it
RECURSIVE TableInfoUntilError(_, _)
TableInfoUntilError(fs, order) ==
    IF Len(order) = 0 \/ ParquetFilesUnder(fs, Head(order)) = {} THEN <<>>
    ELSE <<InfoEntry(fs, Head(order))>> \o TableInfoUntilError(fs, Tail(order))

\* table_info(): one entry per relation SHOW TABLES lists, in its order
table_info(fs, order) == [i \in 1..Len(order) |-> InfoEntry(fs, order[i])]

\* with manager.connect() as db: db.table_info()
TableInfo ==
    /\ \E order \in Orders(views) :
         lastRead' = [NoRead EXCEPT !.infoDone = TRUE, !.info = table_info(files, order)]
    /\ UNCHANGED <<files, dirs, views, ncalls, lastCall, manager, df, today, report,
                   pc, result>>

\* the data files of one dataset directory are removed from the storage
\* root by its owner
RemoveDataFiles(dataset) ==
    /\ ParquetFilesUnder(files, dataset) # {}
    /\ files' = [p \in DOMAIN files \ ParquetFilesUnder(files, dataset) |-> files[p]]
    /\ lastRead' = NoRead
    /\ UNCHANGED <<dirs, views, ncalls, lastCall, manager, df, today, report, pc, result>>

\* DuckDBManager.__init__: self._conn = None (0 stands for None; the
\* connections are numbered 1, 2, .. as they are opened)
NewManager == [conn |-> 0, opened |-> 0, open |-> {}, scopes |-> <<>>, error |-> ""]

\* entering "with manager.connect()": duckdb.connect() opens a connection and
\* self._conn is bound to it.  The connection self._conn was bound to before
\* loses that reference; the runtime finalizes (and so closes) it at once or
\* not, depending on the references that remain and on the collector.
EnterScope ==
    /\ manager.opened < MaxConnections
    /\ \E finalized \in BOOLEAN :
         LET new == manager.opened + 1
         IN manager' =
              [conn |-> new,
               opened |-> new,
               open |-> (IF finalized THEN manager.open \ {manager.conn}
                         ELSE manager.open) \cup {new},
               scopes |-> Append(manager.scopes, new),
               error |-> ""]
    /\ UNCHANGED <<files, dirs, views, ncalls, lastCall, lastRead, df, today,
                   report, pc, result>>

\* self._db_path.parent.mkdir() or duckdb.connect() raises: no scope is
\* entered and self._conn is not assigned
ConnectFails ==
    /\ manager.opened < MaxConnections
    /\ manager' = [manager EXCEPT !.error = "ConnectError"]
    /\ UNCHANGED <<files, dirs, views, ncalls, lastCall, lastRead, df, today,
                   report, pc, result>>

\* leaving the innermost scope, the body having raised or not: the finally
\* clause runs self._conn.close() and self._conn = None; with self._conn
\* already None the call of close raises AttributeError
ExitFinally(m, raising) ==
    IF m.conn = 0
    THEN [m EXCEPT !.scopes = SubSeq(m.scopes, 1, Len(m.scopes) - 1),
                   !.error = "AttributeError"]
    ELSE [m EXCEPT !.scopes = SubSeq(m.scopes, 1, Len(m.scopes) - 1),
                   !.open = m.open \ {m.conn},
                   !.conn = 0,
                   !.error = IF raising THEN "BodyError" ELSE ""]

ExitScope ==
    /\ Len(manager.scopes) > 0
    /\ \E raising \in BOOLEAN : manager' = ExitFinally(manager, raising)
    /\ UNCHANGED <<files, dirs, views, ncalls, lastCall, lastRead, df, today,
                   report, pc, result>>

-----------------------------------------------------------------------------
(* utils/dates.py *)

\* last_trading_day(ref_date): walk back from ref_date to a weekday
RECURSIVE last_trading_day(_)
last_trading_day(d) == IF Weekday(d) >= 5 THEN last_trading_day(d - 1) ELSE d

RECURSIVE calendar_days_between(_, _)
calendar_days_between(start, end) ==
    IF start > end THEN <<>>
    ELSE <<start>> \o calendar_days_between(start + 1, end)

\* trading_days_between(start, end): the weekdays from start to end, inclusive
RECURSIVE trading_days_between(_, _)
trading_days_between(start, end) ==
    IF start > end THEN <<>>
    ELSE (IF Weekday(start) < 5 THEN <<start>> ELSE <<>>)
         \o trading_days_between(start + 1, end)

-----------------------------------------------------------------------------
(* validation/models.py and validation/checks.py *)

PASS == "pass"
WARN == "warn"
FAIL == "fail"
CheckStatus == {PASS, WARN, FAIL}

\* one part of a message: a number followed by text
Part(n, text) == [n |-> n, text |-> text]

CheckResult(name, status, message, details) ==
    [check_name |-> name, status |-> status, message |-> message,
     details |-> details]

NoResult == CheckResult("", "", <<>>, <<>>)

NoReport == [symbol |-> "", results |-> <<>>]

MinOf(S) == CHOOSE x \in S : \A y \in S : x <= y
MaxOf(S) == CHOOSE x \in S : \A y \in S : x >= y

\* sorted(set): ascending
RECURSIVE Sorted(_)
Sorted(S) == IF S = {} THEN <<>> ELSE <<MinOf(S)>> \o Sorted(S \ {MinOf(S)})

\* a null in the date column (pl.Date is nullable): no day number
NullDate == -1

\* set(df["date"].to_list()): a null date is the element None
DatesOf(rows) == {rows[i].date : i \in 1..Len(rows)}

\* Series.min() and Series.max() skip nulls and give None when nothing is left
SeriesMin(rows) ==
    IF DatesOf(rows) \ {NullDate} = {} THEN NullDate ELSE MinOf(DatesOf(rows) \ {NullDate})

SeriesMax(rows) ==
    IF DatesOf(rows) \ {NullDate} = {} THEN NullDate ELSE MaxOf(DatesOf(rows) \ {NullDate})

\* an exception that leaves a function instead of a CheckResult
Raised(error) == CheckResult("", error, <<>>, <<>>)

IsException(r) == r.status \notin CheckStatus

\* "while current <= end" with None for current or end: TypeError
ComparesNone(start, end) == start = NullDate \/ end = NullDate

RECURSIVE GapLoopAdjacentOnly(_, _, _, _)
GapLoopAdjacentOnly(missing, i, current_gap, max_gap) ==
    IF i >= Len(missing) THEN max_gap
    ELSE LET delta == missing[i + 1] - missing[i]
         IN IF delta <= 1
            THEN GapLoopAdjacentOnly(missing, i + 1, current_gap + 1,
                         IF current_gap + 1 > max_gap THEN current_gap + 1 ELSE max_gap)
            ELSE GapLoopAdjacentOnly(missing, i + 1, 1, max_gap)

\* the loop "for i in range(1, len(missing))" from index i on: max_gap after it
RECURSIVE GapLoop(_, _, _, _)
GapLoop(missing, i, current_gap, max_gap) ==
    IF i >= Len(missing) THEN max_gap
    ELSE LET delta == missing[i + 1] - missing[i]
         IN IF delta <= 3
            THEN GapLoop(missing, i + 1, current_gap + 1,
                         IF current_gap + 1 > max_gap THEN current_gap + 1 ELSE max_gap)
            ELSE GapLoop(missing, i + 1, 1, max_gap)

Isoformat(dates) == dates

GapStatusOverFour(max_gap) == IF max_gap > 4 THEN FAIL ELSE WARN

\* status = CheckStatus.FAIL if max_gap > 3 else CheckStatus.WARN
GapStatus(max_gap) == IF max_gap > 3 THEN FAIL ELSE WARN

check_trading_day_gaps(rows, symbol) ==
    IF Len(rows) = 0
    THEN CheckResult("trading_day_gaps", FAIL, <<Part(0, "No data for"), Part(0, symbol)>>, <<>>)
    ELSE LET start == SeriesMin(rows)
             end == SeriesMax(rows)
             expected == Range(trading_days_between(start, end))
             actual == DatesOf(rows)
             missing == Sorted(expected \ actual)
         IN IF ComparesNone(start, end) THEN Raised("TypeError")
            ELSE IF Len(missing) = 0
            THEN CheckResult("trading_day_gaps", PASS,
                             <<Part(Cardinality(actual), "No gaps found, trading days")>>, <<>>)
            ELSE LET max_gap == GapLoop(missing, 1, 1, 1)
                 IN CheckResult("trading_day_gaps",
                                GapStatus(max_gap),
                                <<Part(Len(missing), "missing trading day(s), longest gap:"),
                                  Part(max_gap, "")>>,
                                Isoformat(SubSeq(missing, 1, IF Len(missing) < 20 THEN Len(missing) ELSE 20)))

\* len(df.filter(...)): the number of rows that pass the filter, keep being
\* the rows that pass
CountRows(rows, keep) == Cardinality({i \in 1..Len(rows) : rows[i] \in keep})

IsNegativePriceNoLow(r) == r.open < 0 \/ r.high < 0 \/ r.close < 0

IsNegativePrice(r) == r.open < 0 \/ r.high < 0 \/ r.low < 0 \/ r.close < 0

IsHighBelowLow(r) == r.high < r.low

IsZeroClose(r) == r.close = 0

IsNegativeVolume(r) == r.volume < 0

\* issues.append(f"{len(x)} rows ...") when len(x) > 0
Issue(n, text) == IF n > 0 THEN <<Part(n, text)>> ELSE <<>>

check_price_sanity(rows, symbol) ==
    LET issues ==
            Issue(CountRows(rows, {r \in Range(rows) : IsNegativePrice(r)}),
                  "rows with negative prices")
            \o Issue(CountRows(rows, {r \in Range(rows) : IsHighBelowLow(r)}),
                     "rows where high < low")
            \o Issue(CountRows(rows, {r \in Range(rows) : IsZeroClose(r)}),
                     "rows with zero close")
            \o Issue(CountRows(rows, {r \in Range(rows) : IsNegativeVolume(r)}),
                     "rows with negative volume")
    IN IF Len(issues) = 0
       THEN CheckResult("price_sanity", PASS,
                        <<Part(0, "All price sanity checks passed")>>, <<>>)
       ELSE CheckResult("price_sanity", FAIL, issues,
                        <<Part(Len(issues), "issue_count")>>)

StaleStatusWarnUpToSix(days_behind) ==
    IF days_behind <= 1 THEN PASS
    ELSE IF days_behind <= 6 THEN WARN
    ELSE FAIL

\* the status check_stale_data gives a number of trading days behind
StaleStatus(days_behind) ==
    IF days_behind <= 1 THEN PASS
    ELSE IF days_behind <= 5 THEN WARN
    ELSE FAIL

\* check_stale_data, with datetime.date.today() = now
check_stale_data(rows, symbol, now) ==
    IF Len(rows) = 0
    THEN CheckResult("stale_data", FAIL, <<Part(0, "No data for"), Part(0, symbol)>>, <<>>)
    ELSE LET max_date == SeriesMax(rows)
             last_td == last_trading_day(now)
             days_behind == Len(trading_days_between(max_date, last_td)) - 1
         IN IF ComparesNone(max_date, last_td) THEN Raised("TypeError")
            ELSE
            CheckResult("stale_data", StaleStatus(days_behind),
                        IF days_behind <= 1
                        THEN <<Part(max_date, "Data is current, latest")>>
                        ELSE <<Part(days_behind, "trading day(s) behind, latest"),
                               Part(max_date, "")>>,
                        <<Part(max_date, "latest_date"), Part(days_behind, "days_behind")>>)

IsFlat(r) == r.open = r.high /\ r.high = r.low /\ r.low = r.close

Abs(x) == IF x < 0 THEN -x ELSE x

\* ((close - open).abs() / open) > 0.01 on 64-bit floats.  A positive open
\* gives a finite quotient, above 0.01 exactly when 100 * |close - open| >
\* open; a negative open gives a quotient that is not positive; open = 0
\* gives +inf when close # 0 and NaN when close = 0, and whether NaN > 0.01
\* holds (nan_greater) depends on the comparison the build of the data-frame
\* library implements.
MovesAtLeastOnePercent(r, nan_greater) ==
    IF r.open > 0 THEN 100 * Abs(r.close - r.open) >= r.open
    ELSE IF r.open < 0 THEN FALSE
    ELSE IF r.close # 0 THEN TRUE
    ELSE nan_greater

MovesOverOnePercent(r, nan_greater) ==
    IF r.open > 0 THEN 100 * Abs(r.close - r.open) > r.open
    ELSE IF r.open < 0 THEN FALSE
    ELSE IF r.close # 0 THEN TRUE
    ELSE nan_greater

check_ohlc_consistency(rows, symbol, nan_greater) ==
    LET issues ==
            Issue(CountRows(rows, {r \in Range(rows) : IsFlat(r)}),
                  "rows with identical OHLC (possible placeholder)")
            \o Issue(CountRows(rows, {r \in Range(rows) :
                        r.volume = 0 /\ MovesOverOnePercent(r, nan_greater)}),
                     "rows with zero volume but >1% price movement")
    IN IF Len(issues) = 0
       THEN CheckResult("ohlc_consistency", PASS,
                        <<Part(0, "OHLC consistency checks passed")>>, <<>>)
       ELSE CheckResult("ohlc_consistency", WARN, issues, <<>>)

OverallStatusWarnFirst(rep) ==
    LET statuses == {rep.results[i].status : i \in 1..Len(rep.results)}
    IN IF WARN \in statuses THEN WARN
       ELSE IF FAIL \in statuses THEN FAIL
       ELSE PASS

\* CheckReport.overall_status
overall_status(rep) ==
    LET statuses == {rep.results[i].status : i \in 1..Len(rep.results)}
    IN IF FAIL \in statuses THEN FAIL
       ELSE IF WARN \in statuses THEN WARN
       ELSE PASS

\* validation/runner.py: the checks in the order of ALL_CHECKS
ALL_CHECKS == <<"trading_day_gaps", "price_sanity", "stale_data", "ohlc_consistency">>

\* check(df, symbol) for the check at position i of ALL_CHECKS
CallCheck(i, rows, symbol, now, nan_greater) ==
    CASE i = 1 -> check_trading_day_gaps(rows, symbol)
      [] i = 2 -> check_price_sanity(rows, symbol)
      [] i = 3 -> check_stale_data(rows, symbol, now)
      [] i = 4 -> check_ohlc_consistency(rows, symbol, nan_greater)

\* results = [check(df, symbol) for check in ALL_CHECKS]: the checks run in
\* order and the first exception ends the comprehension and leaves
\* run_all_checks; otherwise the CheckReport is returned
run_all_checks(rows, symbol, now, nan_greater) ==
    LET results == [i \in 1..Len(ALL_CHECKS) |->
                        CallCheck(i, rows, symbol, now, nan_greater)]
        failed == {i \in 1..Len(ALL_CHECKS) : IsException(results[i])}
    IN IF failed # {}
       THEN [raised |-> results[MinOf(failed)], report |-> NoReport]
       ELSE [raised |-> NoResult, report |-> [symbol |-> symbol, results |-> results]]

-----------------------------------------------------------------------------
(* cli/crossvalidate.py *)

\* one row of a fetched series: SELECT date, open, high, low, close ...
Quote(date, o, h, l, c) == [date |-> date, open |-> o, high |-> h, low |-> l, close |-> c]

\* db.to_polars("SELECT ... FROM daily_ohlcv WHERE symbol = .. AND source = ..
\* ORDER BY date") on a store st: the query raises when the catalog has no
\* relation daily_ohlcv; a symbol or source without rows gives the empty table
FetchSeries(st, symbol, source) ==
    IF ~st.relation THEN [raised |-> TRUE, rows |-> <<>>]
    ELSE [raised |-> FALSE, rows |-> st.series[<<symbol, source>>]]

\* set(df["date"].to_list())
SeriesDates(rows) == {rows[i].date : i \in 1..Len(rows)}

\* df_a.join(df_b, on="date", suffix=...): the inner join, one row per pair
\* of rows with the same date, in the order of df_a
RECURSIVE JoinOnDate(_, _)
JoinOnDate(a, b) ==
    IF Len(a) = 0 THEN <<>>
    ELSE LET mates == SelectSeq(b, LAMBDA r : r.date = Head(a).date)
         IN [i \in 1..Len(mates) |-> [a |-> Head(a), b |-> mates[i]]]
            \o JoinOnDate(Tail(a), b)

\* round(n / d) to the nearest integer, a tie going to the even one, as the
\* format specifications .1f and .3f round
RoundHalfEven(n, d) ==
    LET q == n \div d
        r == n % d
    IN IF 2 * r < d THEN q
       ELSE IF 2 * r > d THEN q + 1
       ELSE IF q % 2 = 0 THEN q ELSE q + 1

\* a cell of the matrix: a number (in tenths or thousandths of a per cent) or
\* the placeholder "-"
Shown(value) == [shown |-> TRUE, value |-> value]
Placeholder == [shown |-> FALSE, value |-> 0]

\* f"{len(common) / len(total) * 100:.1f}%" in tenths of a per cent
OverlapPct(dates_a, dates_b) ==
    RoundHalfEven(1000 * Cardinality(dates_a \cap dates_b),
                  Cardinality(dates_a \cup dates_b))

\* (joined["close"] - joined["close_b"]).abs() / joined["close"] * 100 for
\* one joined row with a positive close, in thousandths of a per cent
CloseDiff(pair) ==
    RoundHalfEven(100000 * Abs(pair.a.close - pair.b.close), pair.a.close)

\* the comparison of the last two sources in place of the first two
MatrixCellsOfLastTwo(source_dfs) ==
    LET df_a == source_dfs[Len(source_dfs) - 1]
        df_b == source_dfs[Len(source_dfs)]
    IN IF Len(df_a) > 0 /\ Len(df_b) > 0
       THEN LET common == SeriesDates(df_a) \cap SeriesDates(df_b)
                joined == JoinOnDate(df_a, df_b)
            IN [overlap_pct |-> Shown(OverlapPct(SeriesDates(df_a), SeriesDates(df_b))),
                max_diff |-> IF common # {}
                             THEN Shown(MaxOf({CloseDiff(joined[i]) : i \in 1..Len(joined)}))
                             ELSE Placeholder]
       ELSE [overlap_pct |-> Placeholder, max_diff |-> Placeholder]

\* overlap_pct and max_diff of one symbol: from source_dfs[0] and
\* source_dfs[1] when neither is empty, placeholders otherwise
MatrixCells(source_dfs) ==
    LET df_a == source_dfs[1]
        df_b == source_dfs[2]
    IN IF Len(source_dfs) >= 2 /\ Len(df_a) > 0 /\ Len(df_b) > 0
       THEN LET common == SeriesDates(df_a) \cap SeriesDates(df_b)
                joined == JoinOnDate(df_a, df_b)
            IN [overlap_pct |-> Shown(OverlapPct(SeriesDates(df_a), SeriesDates(df_b))),
                max_diff |-> IF common # {}
                             THEN Shown(MaxOf({CloseDiff(joined[i]) : i \in 1..Len(joined)}))
                             ELSE Placeholder]
       ELSE [overlap_pct |-> Placeholder, max_diff |-> Placeholder]

\* the table row of one symbol: the queries of the matrix are guarded, an
\* exception gives the empty frame
MatrixRow(st, symbol, source_list) ==
    LET source_dfs == [i \in 1..Len(source_list) |->
                          FetchSeries(st, symbol, source_list[i]).rows]
        cells == MatrixCells(source_dfs)
    IN [symbol |-> symbol,
        row_counts |-> [i \in 1..Len(source_list) |-> Len(source_dfs[i])],
        overlap_pct |-> cells.overlap_pct,
        max_diff |-> cells.max_diff]

\* crossvalidate_matrix: one table row per symbol of symbol_list
crossvalidate_matrix(st, symbol_list, source_list) ==
    [raised |-> FALSE,
     table |-> [i \in 1..Len(symbol_list) |-> MatrixRow(st, symbol_list[i], source_list)]]

\* itertools.combinations(range(1, n + 1), 2) from the pair <<i, j>> on
RECURSIVE CombinationsFrom(_, _, _)
CombinationsFrom(i, j, n) ==
    IF i >= n THEN <<>>
    ELSE IF j > n THEN CombinationsFrom(i + 1, i + 2, n)
    ELSE <<<<i, j>>>> \o CombinationsFrom(i, j + 1, n)

compare_cols == <<"open", "high", "low", "close">>

\* one entry of mask = (joined[col] - joined[col_b]).abs() / joined[col] * 100
\* > tolerance: the quotient is negative for a negative a, infinite for a = 0
\* and b # 0, NaN for a = b = 0 (nan_greater is the outcome of NaN > tolerance)
DiffExceeds(a, b, tolerance, nan_greater) ==
    IF a > 0 THEN 100 * Abs(a - b) > tolerance * a
    ELSE IF a < 0 THEN 100 * Abs(a - b) < tolerance * a
    ELSE IF b # 0 THEN TRUE
    ELSE nan_greater

\* any_exceeds of one joined row: the masks of the compared columns or-ed
AnyExceeds(pair, tolerance, nan_greater) ==
    \E i \in 1..Len(compare_cols) :
        DiffExceeds(pair.a[compare_cols[i]], pair.b[compare_cols[i]], tolerance, nan_greater)

\* the sum of the masks of the columns, a row counted once per column
ExceedCountPerColumn(joined, tolerance, nan_greater) ==
    Cardinality({<<r, i>> \in (1..Len(joined)) \X (1..Len(compare_cols)) :
        DiffExceeds(joined[r].a[compare_cols[i]], joined[r].b[compare_cols[i]],
                    tolerance, nan_greater)})

\* any_exceeds.sum()
ExceedCount(joined, tolerance, nan_greater) ==
    Cardinality({r \in 1..Len(joined) : AnyExceeds(joined[r], tolerance, nan_greater)})

\* _print_pairwise_comparison: the rows of the summary table that count
PairwiseComparison(src_a, df_a, src_b, df_b, tolerance, nan_greater) ==
    LET dates_a == SeriesDates(df_a)
        dates_b == SeriesDates(df_b)
        joined == JoinOnDate(df_a, df_b)
    IN [src_a |-> src_a, src_b |-> src_b, skipped |-> FALSE,
        common |-> Cardinality(dates_a \cap dates_b),
        only_a |-> Cardinality(dates_a \ dates_b),
        only_b |-> Cardinality(dates_b \ dates_a),
        exceed_count |-> ExceedCount(joined, tolerance, nan_greater)]

\* the notice "Skipping a vs b: one or both have no data"
SkipNotice(src_a, src_b) ==
    [src_a |-> src_a, src_b |-> src_b, skipped |-> TRUE,
     common |-> 0, only_a |-> 0, only_b |-> 0, exceed_count |-> 0]

\* crossvalidate_compare: the queries are not guarded, an exception of one
\* leaves the command before anything is printed; otherwise the coverage
\* table and one comparison or notice per pair of sources
crossvalidate_compare(st, symbol, source_list, tolerance, nan_greater) ==
    LET fetched == [i \in 1..Len(source_list) |-> FetchSeries(st, symbol, source_list[i])]
        dfs == [i \in 1..Len(source_list) |-> fetched[i].rows]
        pairs == CombinationsFrom(1, 2, Len(source_list))
    IN IF \E i \in 1..Len(source_list) : fetched[i].raised
       THEN [raised |-> TRUE, coverage |-> <<>>, pairs |-> <<>>]
       ELSE [raised |-> FALSE,
             coverage |-> [i \in 1..Len(source_list) |->
                             [source |-> source_list[i], rows |-> Len(dfs[i])]],
             pairs |-> [k \in 1..Len(pairs) |->
                          LET a == pairs[k][1]
                              b == pairs[k][2]
                          IN IF Len(dfs[a]) = 0 \/ Len(dfs[b]) = 0
                             THEN SkipNotice(source_list[a], source_list[b])
                             ELSE PairwiseComparison(source_list[a], dfs[a],
                                                     source_list[b], dfs[b],
                                                     tolerance, nan_greater)]]

-----------------------------------------------------------------------------
(* processing/normalizer.py *)

\* datetime.datetime.now(datetime.timezone.utc), one instant per call
now_utc == 1705312800

\* the date texts of the payloads: "%Y-%m-%d", and the time-zone-aware
\* datetime strings yfinance writes (str(date_sample) holds a ":")
PlainDateTexts == {"2024-01-02", "2024-01-03"}
DatetimeTexts == {"2024-01-02 00:00:00-05:00", "2024-01-03 00:00:00-05:00"}

\* str.to_date("%Y-%m-%d") of one text
ToDate(text) ==
    CASE text = "2024-01-02" -> 8
      [] text = "2024-01-03" -> 9

\* str.to_datetime("%Y-%m-%d %H:%M:%S%z").dt.date() of one text: the date
\* of the instant in UTC
ToDatetimeDate(text) ==
    CASE text = "2024-01-02 00:00:00-05:00" -> 8
      [] text = "2024-01-03 00:00:00-05:00" -> 9

\* float(text) and cast(pl.Float64) of a decimal text, in hundredths
ParseFloat(text) ==
    LET dots == {i \in 1..Len(text) : text[i] = "."}
    IN IF dots = {} THEN 100 * ParseInt(text)
       ELSE LET p == MinOf(dots)
                frac == SubSeq(text, p + 1, Len(text))
            IN 100 * ParseInt(SubSeq(text, 1, p - 1))
               + (IF Len(frac) = 1 THEN 10 * ParseInt(frac) ELSE ParseInt(frac))

\* a field the values of a date do not hold
NoField == <<>>

\* what a normalizer hands back: the frame, or the exception that left it
Normalized(rows) ==
    [raised |-> FALSE, error |-> "",
     columns |-> DAILY_OHLCV_COLUMNS \o <<"symbol">>, rows |-> rows]

NormalizeRaised(error) == [raised |-> TRUE, error |-> error, columns |-> <<>>, rows |-> <<>>]

\* df.sort("date"): the rows in ascending date order; the order of rows of
\* one date is not fixed
SortByDate(rows) ==
    {[i \in 1..Len(rows) |-> rows[o[i]]] : o \in
        {o \in Orders(1..Len(rows)) :
            \A i \in 1..(Len(rows) - 1) : rows[o[i]].date <= rows[o[i + 1]].date}}

\* one row of the canonical frame
Canonical(date, o, h, l, c, adj, v, source, symbol) ==
    [date |-> date, open |-> o, high |-> h, low |-> l, close |-> c,
     adjusted_close |-> adj, volume |-> v, source |-> source,
     ingested_at |-> now_utc, symbol |-> symbol]

\* normalize_yfinance_daily on the CSV payload csv: the set of frames or
\* exceptions it can end with
normalize_yfinance_daily(csv, symbol) ==
    LET header == Range(csv.header)
        date_col == IF "Date" \in header THEN "Date" ELSE "Datetime"
        has_adj == header \cap {"Adj Close", "Adj. Close", "Adjusted Close"} # {}
        lines == csv.lines
        datetimes == lines[1].date \in DatetimeTexts
        parses == \A i \in 1..Len(lines) :
                     IF datetimes THEN lines[i].date \in DatetimeTexts
                     ELSE lines[i].date \in PlainDateTexts
        rows == [i \in 1..Len(lines) |->
                   Canonical(IF datetimes THEN ToDatetimeDate(lines[i].date)
                             ELSE ToDate(lines[i].date),
                             ParseFloat(lines[i].open), ParseFloat(lines[i].high),
                             ParseFloat(lines[i].low), ParseFloat(lines[i].close),
                             IF has_adj THEN ParseFloat(lines[i].adj)
                             ELSE ParseFloat(lines[i].close),
                             ParseInt(lines[i].volume), "yfinance", symbol)]
    IN IF header = {} THEN {NormalizeRaised("NoDataError")}
       ELSE IF ~({date_col, "Open", "High", "Low", "Close", "Volume"} \subseteq header)
       THEN {NormalizeRaised("ColumnNotFoundError")}
       ELSE IF Len(lines) = 0 THEN {NormalizeRaised("IndexError")}
       ELSE IF ~parses THEN {NormalizeRaised("ComputeError")}
       ELSE {Normalized(rows)}

\* normalize_alpha_vantage_daily on the JSON payload json
normalize_alpha_vantage_daily(json, symbol) ==
    LET time_series == IF json.section THEN json.series ELSE <<>>
        complete == \A i \in 1..Len(time_series) : time_series[i].values.volume # NoField
        rows == [i \in 1..Len(time_series) |->
                   LET values == time_series[i].values
                   IN Canonical(ToDate(time_series[i].date),
                                ParseFloat(values.open), ParseFloat(values.high),
                                ParseFloat(values.low), ParseFloat(values.close),
                                IF values.adjusted # NoField
                                THEN ParseFloat(values.adjusted)
                                ELSE ParseFloat(values.close),
                                ParseInt(values.volume), "alpha_vantage", symbol)]
    IN IF Len(time_series) = 0 THEN {NormalizeRaised("ValueError")}
       ELSE IF ~complete THEN {NormalizeRaised("KeyError")}
       ELSE {Normalized(q) : q \in SortByDate(rows)}

\* the stooq normalizer without its sort
NormalizeStooqUnsorted(csv, symbol) ==
    LET header == Range(csv.header)
        lines == csv.lines
        rows == [i \in 1..Len(lines) |->
                   Canonical(ToDate(lines[i].date),
                             ParseFloat(lines[i].open), ParseFloat(lines[i].high),
                             ParseFloat(lines[i].low), ParseFloat(lines[i].close),
                             ParseFloat(lines[i].close),
                             ParseInt(lines[i].volume), "stooq", symbol)]
    IN IF header = {} THEN {NormalizeRaised("NoDataError")}
       ELSE IF ~({"Date", "Open", "High", "Low", "Close", "Volume"} \subseteq header)
       THEN {NormalizeRaised("ColumnNotFoundError")}
       ELSE {Normalized(rows)}

\* the stooq normalizer taking the adjusted close from the payload
NormalizeStooqTakingAdj(csv, symbol) ==
    LET header == Range(csv.header)
        lines == csv.lines
        rows == [i \in 1..Len(lines) |->
                   Canonical(ToDate(lines[i].date),
                             ParseFloat(lines[i].open), ParseFloat(lines[i].high),
                             ParseFloat(lines[i].low), ParseFloat(lines[i].close),
                             ParseFloat(lines[i].adj),
                             ParseInt(lines[i].volume), "stooq", symbol)]
    IN IF header = {} THEN {NormalizeRaised("NoDataError")}
       ELSE IF ~({"Date", "Open", "High", "Low", "Close", "Volume"} \subseteq header)
       THEN {NormalizeRaised("ColumnNotFoundError")}
       ELSE {Normalized(q) : q \in SortByDate(rows)}

\* normalize_stooq_daily on the CSV payload csv: a header without data
\* lines gives the frame without rows
normalize_stooq_daily(csv, symbol) ==
    LET header == Range(csv.header)
        lines == csv.lines
        rows == [i \in 1..Len(lines) |->
                   Canonical(ToDate(lines[i].date),
                             ParseFloat(lines[i].open), ParseFloat(lines[i].high),
                             ParseFloat(lines[i].low), ParseFloat(lines[i].close),
                             ParseFloat(lines[i].close),
                             ParseInt(lines[i].volume), "stooq", symbol)]
    IN IF header = {} THEN {NormalizeRaised("NoDataError")}
       ELSE IF ~({"Date", "Open", "High", "Low", "Close", "Volume"} \subseteq header)
       THEN {NormalizeRaised("ColumnNotFoundError")}
       ELSE {Normalized(q) : q \in SortByDate(rows)}

NORMALIZERS == {"yfinance", "alpha_vantage", "stooq"}

\* normalize: the dispatch by source name
normalize(source, payload, symbol) ==
    IF source \notin NORMALIZERS THEN {NormalizeRaised("ValueError")}
    ELSE IF source = "yfinance" THEN normalize_yfinance_daily(payload, symbol)
    ELSE IF source = "alpha_vantage" THEN normalize_alpha_vantage_daily(payload, symbol)
    ELSE normalize_stooq_daily(payload, symbol)

-----------------------------------------------------------------------------
(* cli/process.py *)

\* a file of raw_dir/source/symbol, named <date>_daily.<ext>,
\* <date>_daily.meta.json or <date>_intraday.<ext>
RawFile(day, kind, payload) == [day |-> day, kind |-> kind, payload |-> payload]

\* symbol_dir.glob("*_daily.*") without the names ending in .meta.json
DailyFiles(entries) == {f \in entries : f.kind = "daily"}

\* the file with the earliest date
OldestFile(found) == CHOOSE f \in found : \A g \in found : f.day <= g.day

\* sorted(..., reverse=True)[0]: the name with the latest date
MostRecent(found) == CHOOSE f \in found : \A g \in found : g.day <= f.day

\* the loop of _find_raw_files over the symbols
RECURSIVE FindLoop(_, _)
FindLoop(symbol_dirs, symbols) ==
    IF Len(symbols) = 0 THEN <<>>
    ELSE LET symbol == Head(symbols)
             found == IF symbol_dirs[symbol].exists
                      THEN DailyFiles(symbol_dirs[symbol].entries) ELSE {}
         IN (IF found # {} THEN <<[symbol |-> symbol, file |-> MostRecent(found)]>>
             ELSE <<>>)
            \o FindLoop(symbol_dirs, Tail(symbols))

\* _find_raw_files(raw_dir, source, symbols)
_find_raw_files(raw, symbols) ==
    IF ~raw.source_dir THEN <<>> ELSE FindLoop(raw.symbol_dirs, symbols)

\* the lines process_run prints
ProcessingLine(n) == [kind |-> "processing", symbol |-> "", n |-> n]
PathLine(symbol) == [kind |-> "path", symbol |-> symbol, n |-> 1]
ErrorLine(symbol) == [kind |-> "error", symbol |-> symbol, n |-> 0]
DoneLine(n) == [kind |-> "done", symbol |-> "", n |-> n]
NoFilesLine == [kind |-> "no raw files", symbol |-> "", n |-> 0]

\* process_run before its call
NotRun == [check_name |-> "process_run", raw_files |-> <<>>, i |-> 0,
           total_written |-> 0, handled |-> <<>>, lines |-> <<>>]

\* the end of one turn of the loop over raw_files: the lines of the turn,
\* the partitions it counted, and after the last turn the line "Done"
AfterSymbol(res, entry, ok, paths) ==
    LET total == res.total_written + Len(paths)
        lines == IF ok THEN [j \in 1..Len(paths) |-> PathLine(entry.symbol)]
                 ELSE <<ErrorLine(entry.symbol)>>
    IN [res EXCEPT
          !.i = res.i + 1,
          !.total_written = total,
          !.handled = Append(res.handled,
                             [symbol |-> entry.symbol, day |-> entry.file.day,
                              ok |-> ok, paths |-> paths]),
          !.lines = res.lines \o lines
                    \o (IF res.i = Len(res.raw_files) THEN <<DoneLine(total)>> ELSE <<>>)]

-----------------------------------------------------------------------------
(* cli/validate.py *)

\* the query of one source alone
SelectSymbolOfFirstSource(table, symbol) ==
    {r \in table : r.symbol = symbol /\ r.source = "yfinance"}

\* SELECT * FROM daily_ohlcv WHERE symbol = '{symbol}': the rows of the
\* symbol, whatever their source
SelectSymbol(table, symbol) == {r \in table : r.symbol = symbol}

\* ... ORDER BY date: the selected rows in ascending date order, rows of
\* one date in any order
OrderByDate(rows) ==
    {q \in [1..Cardinality(rows) -> rows] :
        /\ Range(q) = rows
        /\ \A i \in 1..(Len(q) - 1) : q[i].date <= q[i + 1].date}

\* validate_run before its loop
NotValidated == [check_name |-> "validate_run", reports |-> <<>>, aborted |-> FALSE]

\* what the loop of validate_run leaves for one symbol: the notice "No data
\* found" or the printed report
NoDataFound(symbol) == [symbol |-> symbol, found |-> FALSE, report |-> NoReport]

Printed(symbol, rep) == [symbol |-> symbol, found |-> TRUE, report |-> rep]

-----------------------------------------------------------------------------
(* utils/rate_limiter.py and the loop of cli/ingest.py *)

\* RateLimiter(limit): _interval in clock ticks, _daily_limit (limited is
\* FALSE for calls_per_day = None), _daily_count = 0, _last_call = 0.0
NewLimiter(limit) ==
    [interval |-> limit.interval, limited |-> limit.limited, daily_limit |-> limit.n,
     daily_count |-> 0, last_call |-> 0]

\* the test of wait() with > in place of >=
LimitExceeded(l) == l.limited /\ l.daily_count > l.daily_limit

\* self._daily_limit is not None and self._daily_count >= self._daily_limit
LimitReached(l) == l.limited /\ l.daily_count >= l.daily_limit

\* wait() called when time.monotonic() reads now: RuntimeError with the
\* limiter untouched, or the sleep up to _last_call + _interval, the new
\* _last_call and the count; clock is the time at which wait() is left
wait(l, now) ==
    IF LimitReached(l)
    THEN [raised |-> TRUE, limiter |-> l, clock |-> now]
    ELSE LET elapsed == now - l.last_call
             woke == IF elapsed < l.interval THEN now + (l.interval - elapsed) ELSE now
         IN [raised |-> FALSE,
             limiter |-> [l EXCEPT !.last_call = woke, !.daily_count = l.daily_count + 1],
             clock |-> woke]

\* reset_daily()
reset_daily(l) == [l EXCEPT !.daily_count = 0]

\* a limiter in use: the limiter, the monotonic clock, the calls made on
\* it, the wait() calls that returned normally since the last reset, how
\* the last call ended, and the lines and the position of the ingest loop
LimiterRun(limit) ==
    [check_name |-> "rate_limiter", limiter |-> NewLimiter(limit), clock |-> 0,
     ncalls |-> 0, returned |-> 0, fetched |-> 0, last |-> "", lines |-> <<>>]

\* the lines of ingest_daily
FetchedLine(sym) == [kind |-> "rows", symbol |-> sym]
IngestErrorLine(sym) == [kind |-> "error", symbol |-> sym]
IngestDoneLine == [kind |-> "done", symbol |-> ""]

-----------------------------------------------------------------------------
(* The inputs of the validation checks and one action per check *)

Window == FirstDay..LastDay

\* a row of one symbol on a day, with the prices of the first fixture row
SaneRow(d) == Row(d, 15000, 15200, 14900, 15100, 1000000, "yfinance", "AAPL")

\* the series whose dates are the days of S, ascending
DateFrame(S) == LET days == Sorted(S) IN [i \in 1..Len(days) |-> SaneRow(days[i])]

DateFrames == {DateFrame(S) : S \in SUBSET Window}

StaleFrames == {DateFrame(S) : S \in {T \in SUBSET Window : Cardinality(T) <= MaxStaleRows}}

OpenValues == {-10, 0, 100}
HighValues == {-10, 100, 102}
LowValues == {-10, 100, 102}
CloseValues == {-10, 0, 100, 101, 102}
VolumeValues == {-1, 0, 1000}

PriceRows ==
    {Row(FirstDay, o, h, l, c, v, "yfinance", "AAPL") :
        o \in OpenValues, h \in HighValues, l \in LowValues,
        c \in CloseValues, v \in VolumeValues}

\* the rows of test_price_sanity_fails_negative_prices and
\* test_price_sanity_fails_high_less_than_low
NegativeOpenRow == Row(8, -10, 5, -15, 3, 100, "test", "BAD")
HighBelowLowRow == Row(8, 10, 5, 8, 9, 100, "test", "BAD")

PriceFrames ==
    SeqsUpTo(PriceRows, MaxRows) \cup {<<NegativeOpenRow>>, <<HighBelowLowRow>>}

StatusLists ==
    SeqsUpTo({CheckResult("check", st, <<>>, <<>>) : st \in CheckStatus}, MaxResults)

\* what a check action leaves alone: the storage and its own inputs
checkFrame ==
    <<files, dirs, views, ncalls, lastCall, lastRead, manager, df, today, report>>

CheckTradingDayGaps ==
    /\ pc = "start"
    /\ result' = check_trading_day_gaps(df, "AAPL")
    /\ pc' = "done"
    /\ UNCHANGED checkFrame

CheckPriceSanity ==
    /\ pc = "start"
    /\ result' = check_price_sanity(df, "AAPL")
    /\ pc' = "done"
    /\ UNCHANGED checkFrame

CheckStaleData ==
    /\ pc = "start"
    /\ result' = check_stale_data(df, "AAPL", today)
    /\ pc' = "done"
    /\ UNCHANGED checkFrame

CheckOhlcConsistency ==
    /\ pc = "start"
    /\ \E nan_greater \in BOOLEAN :
         result' = check_ohlc_consistency(df, "AAPL", nan_greater)
    /\ pc' = "done"
    /\ UNCHANGED checkFrame

\* report.overall_status
OverallStatus ==
    /\ pc = "start"
    /\ result' = CheckResult("overall_status", overall_status(report), <<>>, <<>>)
    /\ pc' = "done"
    /\ UNCHANGED checkFrame

\* rows handed to run_all_checks: clean rows on a few days, a row without a
\* date, and rows with bad prices
RunRows ==
    {SaneRow(d) : d \in {NullDate, 8, 9, 15}}
    \cup {Row(8, -10, 100, -10, 0, -1, "yfinance", "AAPL"),
          Row(9, 100, 102, 100, 102, 0, "yfinance", "AAPL")}

RunFrames == SeqsUpTo(RunRows, MaxRunRows)

\* report = run_all_checks(df, symbol)
RunAllChecks ==
    /\ pc = "start"
    /\ \E nan_greater \in BOOLEAN :
         LET out == run_all_checks(df, "AAPL", today, nan_greater)
         IN /\ report' = out.report
            /\ result' = IF IsException(out.raised) /\ out.raised # NoResult
                         THEN out.raised
                         ELSE CheckResult("run_all_checks", overall_status(out.report),
                                          <<>>, <<>>)
    /\ pc' = "done"
    /\ UNCHANGED <<files, dirs, views, ncalls, lastCall, lastRead, manager, df, today>>

\* the series of the cross-validation inputs: ascending dates, each date
\* once, closes near each other or far apart
CloseSeries ==
    {<<>>} \cup {<<Quote(8, c, c, c, c)>> : c \in {100, 101, 200}}
    \cup {<<Quote(9, c, c, c, c)>> : c \in {100, 101, 200}}
    \cup {<<Quote(8, c, c, c, c), Quote(9, d, d, d, d)>> :
            c \in {100, 101, 200}, d \in {100, 101, 200}}

\* the stores the matrix reads: no relation at all, or a relation with the
\* series of AAPL from two sources, of AAPL from a third one and of MSFT
MatrixStores ==
    {[relation |-> FALSE, series |-> [k \in {} |-> <<>>]]}
    \cup {[relation |-> TRUE,
           series |-> [k \in {"AAPL", "MSFT"} \X {"yfinance", "stooq", "alpha_vantage"} |->
                         CASE k = <<"AAPL", "yfinance">> -> a
                           [] k = <<"AAPL", "stooq">> -> b
                           [] k = <<"AAPL", "alpha_vantage">> -> c
                           [] k = <<"MSFT", "yfinance">> -> m
                           [] k = <<"MSFT", "stooq">> -> <<Quote(8, 100, 100, 100, 100)>>
                           [] OTHER -> <<>>]] :
            a \in CloseSeries, b \in CloseSeries,
            c \in {<<>>, <<Quote(9, 200, 200, 200, 200)>>},
            m \in {<<>>, <<Quote(8, 101, 101, 101, 101)>>}}

MatrixInputs ==
    {[command |-> "matrix", store |-> st, symbols |-> syms, sources |-> srcs] :
        st \in MatrixStores,
        syms \in {<<"AAPL">>, <<"MSFT", "AAPL">>},
        srcs \in {<<"yfinance", "stooq">>, <<"yfinance", "stooq", "alpha_vantage">>}}

\* crossvalidate matrix --sources ... --symbols ...
CrossvalidateMatrix ==
    /\ pc = "start"
    /\ df.command = "matrix"
    /\ LET out == crossvalidate_matrix(df.store, df.symbols, df.sources)
       IN result' = [check_name |-> "matrix", raised |-> out.raised, table |-> out.table]
    /\ pc' = "done"
    /\ UNCHANGED checkFrame

\* the rows of the series the comparison reads: the four prices alike, or
\* one or several of them moved by one or two per cent
CompareRowsA == {Quote(d, c, c, c, c) : d \in {8, 9}, c \in {100, 200}}

CompareRowsB ==
    {Quote(d, q[1], q[2], q[3], q[4]) :
        d \in {8, 9},
        q \in {<<100, 100, 100, 100>>, <<101, 100, 100, 100>>,
                <<102, 102, 100, 100>>, <<100, 100, 100, 102>>}}

\* ORDER BY date: ascending dates, a date the store holds twice kept twice
DateOrdered(rows) ==
    {q \in SeqsUpTo(rows, 2) : \A i \in 1..(Len(q) - 1) : q[i].date <= q[i + 1].date}

CompareStores ==
    {[relation |-> FALSE, series |-> [k \in {} |-> <<>>]]}
    \cup {[relation |-> TRUE,
           series |-> [k \in {"AAPL"} \X {"yfinance", "stooq", "alpha_vantage"} |->
                         CASE k = <<"AAPL", "yfinance">> -> a
                           [] k = <<"AAPL", "stooq">> -> b
                           [] OTHER -> c]] :
            a \in DateOrdered(CompareRowsA), b \in DateOrdered(CompareRowsB),
            c \in {<<>>, <<Quote(9, 200, 200, 200, 200)>>}}

CompareInputs ==
    {[command |-> "compare", store |-> st, symbol |-> "AAPL", sources |-> srcs,
      tolerance |-> t] :
        st \in CompareStores,
        srcs \in {<<"yfinance", "stooq">>, <<"yfinance", "stooq", "alpha_vantage">>},
        t \in {0, 1}}

\* crossvalidate compare --symbol ... --sources ... --tolerance ...
CrossvalidateCompare ==
    /\ pc = "start"
    /\ df.command = "compare"
    /\ \E nan_greater \in BOOLEAN :
          LET out == crossvalidate_compare(df.store, df.symbol, df.sources,
                                           df.tolerance, nan_greater)
          IN result' = [check_name |-> "compare", raised |-> out.raised,
                        coverage |-> out.coverage, pairs |-> out.pairs]
    /\ pc' = "done"
    /\ UNCHANGED checkFrame

\* the texts of the payloads
PriceTexts == {<<"1", "5", "1", ".", "0", "0">>, <<"1", "4", "9", ".", "5">>}

VolumeText == <<"1", "0", "0", "0">>

AdjText == <<"1", "5", "0", ".", "2", "5">>

\* one data line of a CSV payload; adj is read only under an adjusted-close
\* column
CsvLine(date, close) ==
    [date |-> date, open |-> <<"1", "5", "0">>, high |-> <<"1", "5", "2">>,
     low |-> <<"1", "4", "9">>, close |-> close, adj |-> AdjText, volume |-> VolumeText]

CsvPayload(header, lines) == [format |-> "csv", header |-> header, lines |-> lines]

\* yfinance CSV files: with and without an adjusted-close column, with the
\* index column named Date or Datetime, without a Close column, and empty;
\* up to two data lines in any order
YfinancePayloads ==
    {CsvPayload(<<>>, <<>>)}
    \cup {CsvPayload(h, q) :
            h \in {<<"Date", "Open", "High", "Low", "Close", "Adj Close", "Volume">>,
                    <<"Date", "Open", "High", "Low", "Close", "Volume">>,
                    <<"Datetime", "Open", "High", "Low", "Close", "Adj Close", "Volume">>,
                    <<"Date", "Open", "High", "Low", "Volume">>},
            q \in SeqsUpTo({CsvLine(d, c) : d \in PlainDateTexts \cup DatetimeTexts,
                                              c \in PriceTexts}, 2)}

\* stooq CSV files: the six columns, the body "No data", and empty
StooqPayloads ==
    {CsvPayload(<<>>, <<>>), CsvPayload(<<"No data">>, <<>>)}
    \cup {CsvPayload(<<"Date", "Open", "High", "Low", "Close", "Volume">>, q) :
            q \in SeqsUpTo({CsvLine(d, c) : d \in PlainDateTexts, c \in PriceTexts}, 2)}

\* the values of one date of an Alpha Vantage payload
AvEntries ==
    {[date |-> d,
      values |-> [open |-> <<"1", "5", "0">>, high |-> <<"1", "5", "2">>,
                  low |-> <<"1", "4", "9">>, close |-> c, adjusted |-> a, volume |-> v]] :
        d \in PlainDateTexts, c \in PriceTexts, a \in {NoField, AdjText},
        v \in {NoField, VolumeText}}

\* Alpha Vantage JSON files: with or without the section "Time Series
\* (Daily)", the section holding up to two dates, each once, in any order
AlphaVantagePayloads ==
    {[format |-> "json", section |-> sec, series |-> q] :
        sec \in BOOLEAN,
        q \in {q \in SeqsUpTo(AvEntries, 2) :
                 \A i \in 1..Len(q) : \A j \in 1..Len(q) :
                    q[i].date = q[j].date => i = j}}

NormalizeInputs ==
    {[source |-> "yfinance", symbol |-> sym, payload |-> p] :
        sym \in {"AAPL", "MSFT"}, p \in YfinancePayloads}
    \cup {[source |-> "stooq", symbol |-> sym, payload |-> p] :
            sym \in {"AAPL", "MSFT"}, p \in StooqPayloads}
    \cup {[source |-> "alpha_vantage", symbol |-> sym, payload |-> p] :
            sym \in {"AAPL", "MSFT"}, p \in AlphaVantagePayloads}
    \cup {[source |-> "tiingo", symbol |-> "AAPL", payload |-> CsvPayload(<<>>, <<>>)]}

\* normalize(source, raw_path, symbol) on the file the input describes
Normalize ==
    /\ pc = "start"
    /\ \E out \in normalize(df.source, df.payload, df.symbol) :
          result' = [check_name |-> "normalize", raised |-> out.raised,
                     error |-> out.error, columns |-> out.columns, rows |-> out.rows]
    /\ pc' = "done"
    /\ UNCHANGED checkFrame

\* raw stooq files: two good ones of different days, the body "No data",
\* and the sidecar and intraday files that are never processed
GoodCsv(date) ==
    CsvPayload(<<"Date", "Open", "High", "Low", "Close", "Volume">>,
               <<CsvLine(date, <<"1", "5", "1", ".", "0", "0">>)>>)

BadCsv == CsvPayload(<<"No data">>, <<>>)

\* what raw_dir/stooq/<symbol> can hold
SymbolDirs ==
    {[exists |-> FALSE, entries |-> {}],
     [exists |-> TRUE, entries |-> {RawFile(9, "meta", BadCsv)}],
     [exists |-> TRUE, entries |-> {RawFile(8, "daily", GoodCsv("2024-01-02")),
                                    RawFile(8, "meta", BadCsv)}],
     [exists |-> TRUE, entries |-> {RawFile(8, "daily", GoodCsv("2024-01-02")),
                                    RawFile(9, "daily", BadCsv),
                                    RawFile(9, "intraday", BadCsv)}],
     [exists |-> TRUE, entries |-> {RawFile(8, "daily", BadCsv),
                                    RawFile(9, "daily", GoodCsv("2024-01-03")),
                                    RawFile(9, "meta", BadCsv)}]}

ProcessInputs ==
    {[source |-> "stooq", symbols |-> syms,
      raw |-> [source_dir |-> sd,
               symbol_dirs |-> [x \in {"AAPL", "MSFT"} |-> IF x = "AAPL" THEN a ELSE b]]] :
        syms \in {<<"AAPL">>, <<"AAPL", "MSFT">>, <<"MSFT", "AAPL", "MSFT">>},
        sd \in BOOLEAN, a \in SymbolDirs, b \in SymbolDirs}

\* process_run up to its loop: the raw files are looked up; without any the
\* command prints "No raw files found to process." and exits with status 1
FindRawFiles ==
    /\ pc = "start"
    /\ LET raw_files == _find_raw_files(df.raw, df.symbols)
       IN IF Len(raw_files) = 0
          THEN /\ result' = [NotRun EXCEPT !.lines = <<NoFilesLine>>]
               /\ pc' = "exit"
          ELSE /\ result' = [NotRun EXCEPT !.raw_files = raw_files, !.i = 1,
                                           !.lines = <<ProcessingLine(Len(raw_files))>>]
               /\ pc' = "loop"
    /\ UNCHANGED checkFrame

\* one turn of the loop: normalize and write_partitioned in one try block,
\* any exception of either printed as [ERROR] for the symbol; after the
\* last turn "Done. n partition(s) written."
ProcessSymbol ==
    /\ pc = "loop"
    /\ LET entry == result.raw_files[result.i]
       IN \E out \in normalize(df.source, entry.file.payload, entry.symbol) :
            IF out.raised
            THEN /\ result' = AfterSymbol(result, entry, FALSE, <<>>)
                 /\ UNCHANGED <<files, dirs>>
            ELSE \E order \in Orders(GroupKeys(WithYear(out.rows))) :
                   \/ /\ files' = WriteGroups(files, WithYear(out.rows), "daily_ohlcv", order)
                      /\ dirs' = dirs \cup UNION {Parents(PartitionDir("daily_ohlcv", k)) :
                                                     k \in Range(order)}
                      /\ result' = AfterSymbol(result, entry, TRUE,
                                               WrittenPaths("daily_ohlcv", order))
                   \/ \E k \in 1..Len(order), opened \in BOOLEAN :
                        LET before == WriteGroups(files, WithYear(out.rows), "daily_ohlcv",
                                                  SubSeq(order, 1, k - 1))
                        IN /\ files' = IF opened
                                       THEN WriteParquet(before,
                                                OutPath("daily_ohlcv", order[k]), <<>>)
                                       ELSE before
                           /\ dirs' = dirs \cup UNION {Parents(PartitionDir("daily_ohlcv", order[j])) :
                                                          j \in 1..(IF opened THEN k ELSE k - 1)}
                           /\ result' = AfterSymbol(result, entry, FALSE, <<>>)
    /\ pc' = IF result.i = Len(result.raw_files) THEN "done" ELSE "loop"
    /\ UNCHANGED <<views, ncalls, lastCall, lastRead, manager, df, today, report>>

\* the relation daily_ohlcv validate_run reads: rows of AAPL from two
\* sources on Monday to Wednesday 2024-01-08 .. 10, with or without a row
\* of MSFT
ValidateTables ==
    {t \cup m :
        t \in SUBSET {Row(d, 15000, 15200, 14900, 15100, 1000000, src, "AAPL") :
                        d \in {14, 15, 16}, src \in {"yfinance", "stooq"}},
        m \in {{}, {Row(16, 37000, 37500, 36900, 37100, 2000000, "stooq", "MSFT")}}}

ValidateInputs ==
    {[relation |-> TRUE, table |-> t, symbols |-> syms] :
        t \in ValidateTables, syms \in {<<"AAPL">>, <<"MSFT", "AAPL">>}}
    \cup {[relation |-> FALSE, table |-> {}, symbols |-> <<"MSFT", "AAPL">>]}

\* validate_run up to its loop: connect() and create_views()
ValidateStart ==
    /\ pc = "start"
    /\ result' = NotValidated
    /\ pc' = "loop"
    /\ UNCHANGED checkFrame

\* one turn of the loop of validate_run: the query in its try block, then
\* run_all_checks on what it returned; an exception of run_all_checks
\* leaves the command
ValidateSymbol ==
    /\ pc = "loop"
    /\ LET symbol == df.symbols[Len(result.reports) + 1]
           last == Len(result.reports) + 1 = Len(df.symbols)
       IN IF ~df.relation
          THEN /\ result' = [result EXCEPT !.reports = Append(@, NoDataFound(symbol))]
               /\ pc' = IF last THEN "done" ELSE "loop"
          ELSE \E rows \in OrderByDate(SelectSymbol(df.table, symbol)) :
               \E nan_greater \in BOOLEAN :
                  LET out == run_all_checks(rows, symbol, today, nan_greater)
                  IN IF out.report = NoReport
                     THEN /\ result' = [result EXCEPT !.aborted = TRUE]
                          /\ pc' = "done"
                     ELSE /\ result' = [result EXCEPT
                                          !.reports = Append(@, Printed(symbol, out.report))]
                          /\ pc' = IF last THEN "done" ELSE "loop"
    /\ UNCHANGED checkFrame

\* the rate limits of the ingestors: an interval of two clock ticks, no
\* daily limit or one of 0, 1 or 2 calls
RateLimits ==
    {[interval |-> 2, limited |-> FALSE, n |-> 0]}
    \cup {[interval |-> 2, limited |-> TRUE, n |-> n] : n \in 0..2}

\* the symbols of one ingest command and those whose fetch fails
LimiterInputs ==
    {[limit |-> lim, symbols |-> syms, failing |-> bad] :
        lim \in RateLimits,
        syms \in {<<"AAPL">>, <<"AAPL", "MSFT", "GOOG">>},
        bad \in {{}, {"AAPL"}, {"MSFT"}}}

\* limiter.wait() some ticks after the call before it
Wait ==
    /\ pc = "api"
    /\ result.ncalls < MaxLimiterCalls
    /\ \E dt \in {0, 1, 3} :
          LET out == wait(result.limiter, result.clock + dt)
          IN result' = [result EXCEPT
                          !.limiter = out.limiter,
                          !.clock = out.clock,
                          !.ncalls = result.ncalls + 1,
                          !.returned = IF out.raised THEN @ ELSE @ + 1,
                          !.last = IF out.raised THEN "RuntimeError" ELSE "returned"]
    /\ UNCHANGED <<pc, files, dirs, views, ncalls, lastCall, lastRead, manager, df,
                   today, report>>

\* limiter.reset_daily()
ResetDaily ==
    /\ pc = "api"
    /\ result.ncalls < MaxLimiterCalls
    /\ result' = [result EXCEPT
                    !.limiter = reset_daily(result.limiter),
                    !.ncalls = result.ncalls + 1,
                    !.returned = 0,
                    !.last = "reset"]
    /\ UNCHANGED <<pc, files, dirs, views, ncalls, lastCall, lastRead, manager, df,
                   today, report>>

\* one turn of the loop of ingest_daily: wait(), then fetch_daily; an
\* exception of either is printed as [ERROR] for the symbol; after the
\* last symbol "Done."
IngestSymbol ==
    /\ pc = "loop"
    /\ LET i == result.ncalls + 1
           sym == df.symbols[i]
           last == i = Len(df.symbols)
       IN \E dt \in {0, 1, 3} :
            LET out == wait(result.limiter, result.clock + dt)
                ok == ~out.raised /\ sym \notin df.failing
            IN /\ result' = [result EXCEPT
                    !.limiter = out.limiter,
                    !.clock = out.clock,
                    !.ncalls = i,
                    !.returned = IF out.raised THEN @ ELSE @ + 1,
                    !.fetched = IF ok THEN @ + 1 ELSE @,
                    !.last = IF out.raised THEN "RuntimeError" ELSE "returned",
                    !.lines = @ \o <<IF ok THEN FetchedLine(sym) ELSE IngestErrorLine(sym)>>
                                \o (IF last THEN <<IngestDoneLine>> ELSE <<>>)]
               /\ pc' = IF last THEN "done" ELSE "loop"
    /\ UNCHANGED checkFrame

-----------------------------------------------------------------------------
(* The specifications *)

NoCall == [df |-> <<>>, written |-> <<>>, repeat |-> FALSE, dropped |-> {},
           error |-> NoError]

InitStore ==
    /\ files = <<>>
    /\ dirs = {}
    /\ views = {}
    /\ ncalls = 0
    /\ lastCall = NoCall
    /\ lastRead = NoRead
    /\ manager = NewManager

InitNoCheck ==
    /\ df = <<>>
    /\ today = 0
    /\ report = NoReport
    /\ pc = "idle"
    /\ result = NoResult

Init == InitStore /\ InitNoCheck

Next ==
    \/ \E batch \in Batches : WritePartitioned(batch)
    \/ QueryDaily

\* the partition writer and the view layer
Spec == Init /\ [][Next]_vars

InitCheck(frames, days, reports) ==
    /\ InitStore
    /\ df \in frames
    /\ today \in days
    /\ report \in reports
    /\ pc = "start"
    /\ result = NoResult

\* check_trading_day_gaps on every series of days of the window
SpecGaps ==
    InitCheck(DateFrames, {FirstDay}, {NoReport}) /\ [][CheckTradingDayGaps]_vars

NextPrices == CheckPriceSanity \/ CheckOhlcConsistency

\* check_price_sanity and check_ohlc_consistency on every row set of prices
SpecPrices ==
    InitCheck(PriceFrames, {FirstDay}, {NoReport}) /\ [][NextPrices]_vars

\* check_stale_data on every short series and every today of the window
SpecStale ==
    InitCheck(StaleFrames, Window, {NoReport}) /\ [][CheckStaleData]_vars

\* overall_status of every report of up to MaxResults results
SpecReport ==
    InitCheck({<<>>}, {FirstDay},
              {[symbol |-> "AAPL", results |-> rs] : rs \in StatusLists})
    /\ [][OverallStatus]_vars

NextFail ==
    \E batch \in Batches : WritePartitioned(batch) \/ WritePartitionedFails(batch)

\* the partition writer on a storage whose directory creation and file
\* writes can fail
SpecFail == Init /\ [][NextFail]_vars

\* the names the entries of the storage root take
EntryNames == {"daily_ohlcv", "intraday", "daily-ohlcv"}

\* what an entry of the storage root can be: nothing, a file, an empty
\* directory, a directory holding only a file that is no data file, a
\* directory holding a data file below its partition directories
EntryKinds == {"absent", "file", "empty", "nodata", "data"}

EntryFiles(name, kind) ==
    CASE kind = "file" -> {<<PlainSegment(name)>>}
      [] kind = "nodata" -> {<<PlainSegment(name), PlainSegment("README.md")>>}
      [] kind = "data" -> {OutPath(name, <<"AAPL", "yfinance", 2024>>)}
      [] OTHER -> {}

EntryDirs(name, kind) ==
    CASE kind = "empty" -> {<<PlainSegment(name)>>}
      [] kind = "nodata" -> {<<PlainSegment(name)>>}
      [] kind = "data" -> Parents(PartitionDir(name, <<"AAPL", "yfinance", 2024>>)) \ {<<>>}
      [] OTHER -> {}

\* the storage root whose entries are of the given kinds
RootFiles(kinds) ==
    [p \in UNION {EntryFiles(n, kinds[n]) : n \in EntryNames} |->
        IF MatchesParquetGlob(p[Len(p)].text)
        THEN SelectParquetColumns(WithYear(<<SaneRow(8), SaneRow(9)>>))
        ELSE <<>>]

RootDirs(kinds) == {<<>>} \cup UNION {EntryDirs(n, kinds[n]) : n \in EntryNames}

\* a storage root that does not exist, or one with any entries
InitViews ==
    /\ \/ files = <<>> /\ dirs = {}
       \/ \E kinds \in [EntryNames -> EntryKinds] :
            files = RootFiles(kinds) /\ dirs = RootDirs(kinds)
    /\ views = {}
    /\ ncalls = 0
    /\ lastCall = NoCall
    /\ lastRead = NoRead
    /\ manager = NewManager
    /\ InitNoCheck

NextViews ==
    \/ CreateViews
    \/ TableInfo
    \/ \E name \in EntryNames : RemoveDataFiles(name)

\* create_views on storage roots of every shape
SpecViews == InitViews /\ [][NextViews]_vars

\* the cross-validation matrix on every store of the inputs
SpecMatrix ==
    InitCheck(MatrixInputs, {FirstDay}, {NoReport}) /\ [][CrossvalidateMatrix]_vars

\* the pairwise comparison on every store of the inputs
SpecCompare ==
    InitCheck(CompareInputs, {FirstDay}, {NoReport}) /\ [][CrossvalidateCompare]_vars

NextCross == CrossvalidateCompare \/ CrossvalidateMatrix

\* both commands of the cross-validation
SpecCross ==
    InitCheck(CompareInputs \cup MatrixInputs, {FirstDay}, {NoReport}) /\ [][NextCross]_vars

\* normalize on every payload of the inputs
SpecNormalize ==
    InitCheck(NormalizeInputs, {FirstDay}, {NoReport}) /\ [][Normalize]_vars

InitLimiter ==
    /\ InitStore
    /\ df \in LimiterInputs
    /\ today = 0
    /\ report = NoReport
    /\ pc \in {"api", "loop"}
    /\ result = LimiterRun(df.limit)

NextLimiter == Wait \/ ResetDaily \/ IngestSymbol

\* a RateLimiter called directly, and the one of an ingest command
SpecLimiter == InitLimiter /\ [][NextLimiter]_vars

NextValidate == ValidateStart \/ ValidateSymbol

\* validate run on every relation of the inputs, on two days
SpecValidate ==
    InitCheck(ValidateInputs, {16, 17}, {NoReport}) /\ [][NextValidate]_vars

NextProcess == FindRawFiles \/ ProcessSymbol

\* process run on every raw directory of the inputs
SpecProcess ==
    InitCheck(ProcessInputs, {FirstDay}, {NoReport}) /\ [][NextProcess]_vars

InitRace ==
    /\ InitStore
    /\ df \in {[w \in Writers |-> IF w = "A" THEN a ELSE b] :
                  a \in RaceFrames(900000), b \in RaceFrames(900001)}
    /\ today = 0
    /\ report = NoReport
    /\ pc = [w \in Writers |-> Idle]
    /\ result = [w \in Writers |-> <<>>]

NextRace ==
    \E w \in Writers :
        StartWrite(w) \/ MakePartitionDir(w) \/ OpenParquet(w) \/ CloseParquet(w)

\* two invocations of write_partitioned whose steps interleave freely
SpecRace == InitRace /\ [][NextRace]_vars

NextConnect == EnterScope \/ ConnectFails \/ ExitScope

\* the connect() scopes of one DuckDBManager, nested or one after another
SpecConnect == Init /\ [][NextConnect]_vars

\* run_all_checks on every short row set, on several days
SpecRun ==
    InitCheck(RunFrames, {15, 16, 20, 24}, {NoReport}) /\ [][RunAllChecks]_vars

-----------------------------------------------------------------------------
(* CLAIMS *)

\* the partition keys the rows of the pool fall under
PoolKeys == {<<r.symbol, r.source, YearOf(r.date)>> : r \in RowPool}

\* the rows of a batch that belong to one (symbol, source, year) key
RowsUnderKey(batch, k) ==
    SelectSeq(batch, LAMBDA r :
        r.symbol = k[1] /\ r.source = k[2] /\ YearOf(r.date) = k[3])

\* a row as a data file keeps it: every canonical column but the partition ones
AsStored(r) ==
    [date |-> r.date, open |-> r.open, high |-> r.high, low |-> r.low,
     close |-> r.close, adjusted_close |-> r.adjusted_close,
     volume |-> r.volume, ingested_at |-> r.ingested_at]

StoredRowsUnderKey(batch, k) ==
    LET mine == RowsUnderKey(batch, k)
    IN [i \in 1..Len(mine) |-> AsStored(mine[i])]

DailyPath(k) == OutPath("daily_ohlcv", k)

IsWriteStep == ncalls' = ncalls + 1

\* C1: every write_partitioned call leaves in the file of each (symbol,
\* source, year) key of its batch exactly the rows the batch has for that key
\* (rows stored earlier under the key and absent from the batch are gone),
\* leaves the file of every key the batch does not contain as it was, and
\* nothing but a write_partitioned call changes a file; so after any sequence
\* of calls each file holds the rows of the most recent batch containing its
\* key.
C1_LatestBatchReplacesGroup ==
    [][ /\ IsWriteStep =>
            /\ \A k \in PoolKeys :
                 LET mine == StoredRowsUnderKey(lastCall'.df, k)
                     p == DailyPath(k)
                 IN IF Len(mine) > 0
                    THEN p \in DOMAIN files' /\ files'[p] = mine
                    ELSE /\ p \in DOMAIN files' <=> p \in DOMAIN files
                         /\ p \in DOMAIN files => files'[p] = files[p]
            /\ DOMAIN files' \subseteq {DailyPath(k) : k \in PoolKeys}
        /\ ~IsWriteStep => files' = files ]_vars

\* C1 witness: a call has replaced a file, dropping a row stored before, while
\* the file of another key, not in the batch, is still there
C1_Witness ==
    /\ ncalls >= 2
    /\ lastCall.dropped # {}
    /\ \E p \in DOMAIN files : p \notin Range(lastCall.written)

\* the row the daily_ohlcv view is expected to show for a written row: its
\* own columns and the year of its date
AsViewed(r) ==
    [date |-> r.date, open |-> r.open, high |-> r.high, low |-> r.low,
     close |-> r.close, adjusted_close |-> r.adjusted_close,
     volume |-> r.volume, ingested_at |-> r.ingested_at,
     symbol |-> r.symbol, source |-> r.source, year |-> YearOf(r.date)]

ViewedBatch(batch) == BagOfSeq([i \in 1..Len(batch) |-> AsViewed(batch[i])])

FirstWriteWasRead == ncalls = 1 /\ lastRead.done

\* C2 (as stated): for any row set written into an empty storage root, the
\* daily_ohlcv view read after create_views returns the same rows, with
\* symbol, source and year rebuilt from the path equal to those at write time.
C2_Original_RoundTripAnyRowSet ==
    FirstWriteWasRead =>
        /\ lastRead.table.ok
        /\ lastRead.table.rows = ViewedBatch(lastCall.df)

\* C2 (amended): for any non-empty row set written into an empty storage
\* root, create_views creates daily_ohlcv and the view returns the same number
\* of rows with the same values, symbol, source and year rebuilt from the path
\* equal to the symbol, source and year(date) at write time; for the empty
\* row set no file is written, no view is created and the read fails.
C2_RoundTripNonEmpty ==
    FirstWriteWasRead =>
        IF Len(lastCall.df) > 0
        THEN /\ "daily_ohlcv" \in lastRead.views
             /\ lastRead.table.ok
             /\ BagCardinality(lastRead.table.rows) = Len(lastCall.df)
             /\ lastRead.table.rows = ViewedBatch(lastCall.df)
        ELSE /\ lastRead.views = {}
             /\ ~lastRead.table.ok

\* C2 witness: a batch with rows of two different years was written into the
\* empty root and read back through the view
C2_Witness ==
    /\ FirstWriteWasRead
    /\ lastRead.table.ok
    /\ Len(lastCall.df) = 2
    /\ YearOf(lastCall.df[1].date) # YearOf(lastCall.df[2].date)

\* C3: a write_partitioned call with the same row set as the call before it
\* leaves every file as the first call left it (same rows, none duplicated)
\* and returns the same set of paths.
C3_SameBatchTwiceIsIdempotent ==
    [][ (IsWriteStep /\ ncalls >= 1 /\ lastCall'.df = lastCall.df) =>
            /\ files' = files
            /\ Range(lastCall'.written) = Range(lastCall.written)
            /\ \A k \in PoolKeys :
                 Len(RowsUnderKey(lastCall.df, k)) > 0 =>
                    Len(files'[DailyPath(k)]) = Len(RowsUnderKey(lastCall.df, k)) ]_vars

\* C3 witness: a batch with two groups has just been written a second time
C3_Witness ==
    /\ lastCall.repeat
    /\ Len(lastCall.written) = 2

-----------------------------------------------------------------------------
(* CLAIMS about the validation engine *)

Done(name) == pc = "done" /\ result.check_name = name

StatusCount(rs, st) == Cardinality({i \in 1..Len(rs) : rs[i].status = st})

\* C4: overall_status of a report is FAIL when at least one result is FAIL,
\* otherwise WARN when at least one result is WARN, otherwise PASS (the empty
\* list included), and every list holding the same results in another order
\* gets the same overall status.
C4_OverallStatusIsWorstStatus ==
    Done("overall_status") =>
        /\ result.status =
             (IF StatusCount(report.results, FAIL) >= 1 THEN FAIL
              ELSE IF StatusCount(report.results, WARN) >= 1 THEN WARN
              ELSE PASS)
        /\ \A rs \in StatusLists :
             BagOfSeq(rs) = BagOfSeq(report.results) =>
                overall_status([symbol |-> report.symbol, results |-> rs]) = result.status

\* C4 witness: a report with a WARN before a FAIL got FAIL
C4_Witness ==
    /\ Done("overall_status")
    /\ Len(report.results) = 2
    /\ report.results[1].status = WARN
    /\ report.results[2].status = FAIL
    /\ result.status = FAIL

IsWeekday(d) == d % 7 \in 0..4

\* the weekdays between the first and the last date of a series that the
\* series does not hold
MissingWeekdays(rows) ==
    LET have == DatesOf(rows)
    IN {d \in MinOf(have)..MaxOf(have) : IsWeekday(d) /\ d \notin have}

\* a and b are in the same run: every missing date from a up to b (b excluded)
\* is followed by another missing date at most 3 calendar days later
SameRun(M, a, b) ==
    \A x \in M : (a <= x /\ x < b) => \E y \in M : y > x /\ y - x <= 3

\* the number of missing dates in the longest run
LongestRun(M) ==
    MaxOf({Cardinality({x \in M : a <= x /\ x <= b}) :
             <<a, b>> \in {ab \in M \X M : ab[1] <= ab[2] /\ SameRun(M, ab[1], ab[2])}})

\* 2024-01-02, 03, 04, 05, 08 as day numbers
FixtureDays == {8, 9, 10, 11, 14}

C6_PassIffNoWeekdayMissing ==
    Done("trading_day_gaps") =>
        /\ result.status = PASS <=>
             /\ Len(df) > 0
             /\ \A d \in MinOf(DatesOf(df))..MaxOf(DatesOf(df)) :
                    IsWeekday(d) => d \in DatesOf(df)
        /\ DatesOf(df) = FixtureDays => result.status = PASS
        /\ \A d \in Range(result.details) : IsWeekday(d)

\* C6 witness: the fixture series, continuous but for a weekend, passed
C6_Witness ==
    /\ Done("trading_day_gaps")
    /\ DatesOf(df) = FixtureDays
    /\ result.status = PASS

\* C7 (as stated): the fixture series 2024-01-02 .. 05, 08 without the dates
\* 01-03 through 01-08 makes check_trading_day_gaps return FAIL.
C7_Original_RemovingThroughLastDateFails ==
    (Done("trading_day_gaps") /\ DatesOf(df) = FixtureDays \ {9, 10, 11, 14}) =>
        result.status = FAIL

\* C7 (amended): the series 2024-01-02, 03, 04, 05, 08, 09 without the dates
\* 01-03 through 01-08 (01-02 and 01-09 remain, 4 weekdays are missing
\* between them) makes check_trading_day_gaps return FAIL; the fixture series
\* without 01-03 through 01-08 is the single date 01-02, which has no gap
\* between its first and last date, and returns PASS.
C7_RemovingInteriorDatesFails ==
    Done("trading_day_gaps") =>
        /\ DatesOf(df) = (FixtureDays \cup {15}) \ {9, 10, 11, 14} =>
             result.status = FAIL /\ result.message[2].n = 4
        /\ DatesOf(df) = FixtureDays \ {9, 10, 11, 14} => result.status = PASS

\* C7 witness: 01-02 and 01-09 alone were checked: FAIL
C7_Witness ==
    /\ Done("trading_day_gaps")
    /\ DatesOf(df) = {8, 15}
    /\ result.status = FAIL

\* the descriptions price_sanity owes a row set: one per condition some row
\* triggers
TriggeredDescriptions(rows) ==
    (IF \E i \in 1..Len(rows) :
            rows[i].open < 0 \/ rows[i].high < 0 \/ rows[i].low < 0 \/ rows[i].close < 0
     THEN {"rows with negative prices"} ELSE {})
    \cup (IF \E i \in 1..Len(rows) : rows[i].high < rows[i].low
          THEN {"rows where high < low"} ELSE {})
    \cup (IF \E i \in 1..Len(rows) : rows[i].close = 0
          THEN {"rows with zero close"} ELSE {})
    \cup (IF \E i \in 1..Len(rows) : rows[i].volume < 0
          THEN {"rows with negative volume"} ELSE {})

ReferenceDay(t) == MaxOf({d \in (t - 6)..t : IsWeekday(d)})

\* weekdays from the latest date of the rows to the reference day, less one
DaysBehind(rows, t) ==
    Cardinality({d \in MaxOf(DatesOf(rows))..ReferenceDay(t) : IsWeekday(d)}) - 1

StatusRank(st) == IF st = PASS THEN 0 ELSE IF st = WARN THEN 1 ELSE 2

\* the weekday before a weekday
WeekdayBefore(d) == MaxOf({e \in (d - 3)..(d - 1) : IsWeekday(e)})

\* C9: check_stale_data returns FAIL for an empty input; otherwise, with the
\* reference the most recent weekday on or before today and days_behind the
\* number of weekdays from max(date) to the reference (both inclusive) less
\* one, PASS when days_behind <= 1, WARN when 2 <= days_behind <= 5, FAIL when
\* days_behind > 5.  A latest date on the reference day or on the weekday
\* before it is PASS, and a series with a later latest date never gets a
\* worse status.
C9_StaleStatusByWeekdaysBehind ==
    Done("stale_data") =>
        IF Len(df) = 0 THEN result.status = FAIL
        ELSE LET behind == DaysBehind(df, today)
             IN /\ result.details[2].n = behind
                /\ result.status =
                     (IF behind <= 1 THEN PASS
                      ELSE IF behind <= 5 THEN WARN
                      ELSE FAIL)
                /\ MaxOf(DatesOf(df)) \in
                      {ReferenceDay(today), WeekdayBefore(ReferenceDay(today))}
                     => result.status = PASS
                /\ \A later \in StaleFrames :
                     (Len(later) > 0 /\ MaxOf(DatesOf(later)) >= MaxOf(DatesOf(df))) =>
                        StatusRank(check_stale_data(later, "AAPL", today).status)
                          <= StatusRank(result.status)

\* C9 witness: today is a Sunday, the reference is the Friday before it and
\* the latest date is the Monday of that week, 4 weekdays behind: WARN
C9_Witness ==
    /\ Done("stale_data")
    /\ Len(df) > 0
    /\ today % 7 = 6
    /\ ReferenceDay(today) = today - 2
    /\ DaysBehind(df, today) = 4
    /\ result.status = WARN

\* |close - open| / open over 1 per cent, the open being positive, or the
\* open being 0 and the close not (an infinite quotient)
MovementOverOnePercent(r) ==
    \/ r.open > 0 /\ 100 * (IF r.close >= r.open THEN r.close - r.open
                            ELSE r.open - r.close) > r.open
    \/ r.open = 0 /\ r.close # 0

\* open = 0 = close: the quotient 0 / 0 is not a number
QuotientUndefined(r) == r.open = 0 /\ r.close = 0

Suspicious(r) ==
    \/ r.open = r.high /\ r.open = r.low /\ r.open = r.close
    \/ r.volume = 0 /\ MovementOverOnePercent(r)

\* C10 as stated: check_ohlc_consistency never returns FAIL, and returns WARN
\* exactly when some row has open = high = low = close or has volume 0 with
\* |close - open| / open over 1 per cent (a row whose open and close are both
\* 0 has not moved).
C10_Original_WarnExactlyWhenSuspicious ==
    Done("ohlc_consistency") =>
        /\ result.status \in {PASS, WARN}
        /\ result.status = WARN <=> \E i \in 1..Len(df) : Suspicious(df[i])

\* C10 apart from undefined quotients: check_ohlc_consistency never returns
\* FAIL; it returns WARN when some
\* row has open = high = low = close or has volume 0 with |close - open| /
\* open over 1 per cent, and PASS when no row does (a row of volume 0 with
\* open = close = 0, whose quotient is 0 / 0, counts as neither: the
\* comparison of a NaN decides it).
C10_OhlcConsistencyWarnsNeverFails ==
    Done("ohlc_consistency") =>
        /\ result.status \in {PASS, WARN}
        /\ (\E i \in 1..Len(df) : Suspicious(df[i])) => result.status = WARN
        /\ (\A i \in 1..Len(df) :
                ~Suspicious(df[i]) /\ ~(df[i].volume = 0 /\ QuotientUndefined(df[i])))
             => result.status = PASS

\* C10 witness: a single row that is not flat, with volume 0 and a close 2 per
\* cent above the open, gave WARN
C10_Witness ==
    /\ Done("ohlc_consistency")
    /\ Len(df) = 1
    /\ df[1].open = 100 /\ df[1].close = 102 /\ df[1].high = 102 /\ df[1].volume = 0
    /\ result.status = WARN

\* the report holds the four results in the order of ALL_CHECKS
IsCompleteReport(rep) ==
    /\ Len(rep.results) = 4
    /\ \A i \in 1..4 : /\ rep.results[i].check_name = ALL_CHECKS[i]
                       /\ rep.results[i].status \in CheckStatus

\* C11 as stated: for every row set, run_all_checks returns a report with
\* exactly four results in the fixed order and no check raises.
C11_Original_AlwaysCompleteReport ==
    pc = "done" => result.check_name = "run_all_checks" /\ IsCompleteReport(report)

\* C11 for row sets that are empty or hold a date: run_all_checks returns a
\* report with exactly the four results in the fixed order, each the result
\* of its own check on the whole row set, so a FAIL of one check does not
\* keep the later checks from running.
C11_CompleteReportWhenSomeDate ==
    pc = "done" /\ (df = <<>> \/ DatesOf(df) # {NullDate}) =>
        /\ result.check_name = "run_all_checks"
        /\ IsCompleteReport(report)
        /\ report.results[1] = check_trading_day_gaps(df, "AAPL")
        /\ report.results[2] = check_price_sanity(df, "AAPL")
        /\ report.results[3] = check_stale_data(df, "AAPL", today)
        /\ \E nan_greater \in BOOLEAN :
              report.results[4] = check_ohlc_consistency(df, "AAPL", nan_greater)

\* C11 witness: a row with a negative price gave FAIL in price_sanity and the
\* two later checks still ran
C11_Witness ==
    /\ pc = "done"
    /\ Len(df) = 1 /\ df[1].open < 0
    /\ IsCompleteReport(report)
    /\ report.results[2].status = FAIL
    /\ report.results[4].status = PASS

\* the decimal text of the years the pool's rows fall in
YearText(y) == IF y = 2023 THEN <<"2", "0", "2", "3">> ELSE <<"2", "0", "2", "4">>

\* storage_root/daily_ohlcv/symbol=<S>/source=<SRC>/year=<Y>/data.parquet
LayoutPath(k) ==
    <<[column |-> "", text |-> "daily_ohlcv"],
      [column |-> "symbol", text |-> k[1]],
      [column |-> "source", text |-> k[2]],
      [column |-> "year", text |-> YearText(k[3])],
      [column |-> "", text |-> "data.parquet"]>>

BatchKeys(batch) ==
    {<<batch[i].symbol, batch[i].source, YearOf(batch[i].date)>> : i \in 1..Len(batch)}

\* C12: after a write_partitioned call the returned list holds one path per
\* distinct (symbol, source, year(date)) key of the batch and no path twice,
\* the paths are those of the layout
\* dataset/symbol=S/source=SRC/year=Y/data.parquet, a file exists at each,
\* and the file of a key holds as many rows as the batch has for the key,
\* among them every row of that key, so that no row is in another key's file.
C12_OneFileAndOnePathPerKey ==
    ncalls > 0 =>
        LET batch == lastCall.df
            written == lastCall.written
        IN /\ Len(written) = Cardinality(BatchKeys(batch))
           /\ \A i, j \in 1..Len(written) : written[i] = written[j] => i = j
           /\ Range(written) = {LayoutPath(k) : k \in BatchKeys(batch)}
           /\ Range(written) \subseteq DOMAIN files
           /\ \A k \in BatchKeys(batch) :
                 /\ Len(files[LayoutPath(k)]) = Len(RowsUnderKey(batch, k))
                 /\ \A i \in 1..Len(batch) :
                       <<batch[i].symbol, batch[i].source, YearOf(batch[i].date)>> = k
                         => AsStored(batch[i]) \in Range(files[LayoutPath(k)])

\* C12 witness: a call with two rows of one key returned one path, the
\* second call on the root
C12_Witness ==
    /\ ncalls = 2
    /\ Len(lastCall.df) = 2
    /\ Len(lastCall.written) = 1
    /\ Len(files[lastCall.written[1]]) = 2

\* C13: every file written by write_partitioned holds rows with exactly the
\* columns date, open, high, low, close, adjusted_close, volume, ingested_at
\* (none of symbol, source, year), with the values of the input rows, and the
\* files of the most recent call hold one stored row per input row of their
\* group.
C13_FilesHoldNoPartitionColumn ==
    /\ \A p \in DOMAIN files : \A i \in 1..Len(files[p]) :
          /\ DOMAIN files[p][i] =
                {"date", "open", "high", "low", "close", "adjusted_close",
                 "volume", "ingested_at"}
          /\ \E r \in RowPool : files[p][i] = AsStored(r)
    /\ \A k \in BatchKeys(lastCall.df) :
          Len(files[LayoutPath(k)]) =
            Cardinality({i \in 1..Len(lastCall.df) :
                <<lastCall.df[i].symbol, lastCall.df[i].source,
                  YearOf(lastCall.df[i].date)>> = k})

\* C13 witness: after the first call a file holds two rows, and its rows
\* have a date and no source
C13_Witness ==
    /\ ncalls = 1
    /\ \E p \in DOMAIN files :
          /\ Len(files[p]) = 2
          /\ "date" \in DOMAIN files[p][1]
          /\ "source" \notin DOMAIN files[p][1]

\* the file of key k is as it was before the step (absent included) or holds
\* the complete rows the batch has for k
IntactOrComplete(k, batch) ==
    LET p == LayoutPath(k)
    IN \/ p \notin DOMAIN files /\ p \notin DOMAIN files'
       \/ p \in DOMAIN files /\ p \in DOMAIN files' /\ files'[p] = files[p]
       \/ /\ p \in DOMAIN files'
          /\ Len(StoredRowsUnderKey(batch, k)) > 0
          /\ files'[p] = StoredRowsUnderKey(batch, k)

IsFailedWrite == ncalls' = ncalls + 1 /\ lastCall'.error # NoError

C15_Original_EveryScopeClosesItsConnection ==
    [][ Len(manager'.scopes) < Len(manager.scopes) =>
          /\ manager.scopes[Len(manager.scopes)] \notin manager'.open
          /\ manager'.conn = 0 ]_vars

\* C15 for scopes that are not nested: leaving a scope entered while no other
\* scope of the manager was active closes the connection it opened and
\* resets the handle, whether the body raised or not.
C15_SingleScopeClosesItsConnection ==
    [][ Len(manager.scopes) = 1 /\ Len(manager'.scopes) = 0
        /\ manager.conn = manager.scopes[1] =>
          /\ manager.scopes[1] \notin manager'.open
          /\ manager'.conn = 0
          /\ manager'.error \in {"", "BodyError"} ]_vars

\* C15 witness: the third scope of a manager, entered and left on its own
\* with the body raising, has closed its connection and no connection is open
C15_Witness ==
    /\ manager.opened = 3
    /\ manager.scopes = <<>>
    /\ manager.error = "BodyError"
    /\ manager.open = {}
    /\ manager.conn = 0

\* the immediate subdirectories of the storage root that hold a data file at
\* some depth
DataDirs ==
    {n \in EntryNames :
        /\ <<[column |-> "", text |-> n]>> \in dirs
        /\ \E p \in DOMAIN files :
              Len(p) > 1 /\ p[1].text = n /\ p[Len(p)].text = "data.parquet"}

\* C16 as stated: create_views never raises and returns exactly the names of
\* the immediate subdirectories that hold a data file, each once, with a
\* relation for each in the catalog.
C16_Original_ReturnsEveryDataDirectory ==
    lastRead.done =>
        /\ ~lastRead.raised
        /\ lastRead.views = DataDirs
        /\ Len(lastRead.created) = Cardinality(DataDirs)
        /\ DataDirs \subseteq views

\* C16 for directory names that are SQL identifiers: create_views returns
\* exactly the names of the immediate subdirectories that hold a data file,
\* each once, with a relation for each in the catalog; entries that are no
\* directory and directories without data file are skipped, a root that
\* does not exist or is empty gives the empty list, and a second call on
\* the unchanged root returns the same names.
C16_ReturnsEveryDataDirectoryWithIdentifierName ==
    /\ [](lastRead.done /\ "daily-ohlcv" \notin DataDirs =>
            /\ ~lastRead.raised
            /\ lastRead.views = DataDirs
            /\ Len(lastRead.created) = Cardinality(DataDirs)
            /\ DataDirs \subseteq views
            /\ (<<>> \notin dirs \/ (DOMAIN files = {} /\ dirs = {<<>>}))
                 => lastRead.created = <<>>)
    /\ [][lastRead.done /\ lastRead'.done /\ "daily-ohlcv" \notin DataDirs
           => lastRead'.views = lastRead.views /\ views' = views]_vars

\* C16 witness: on a root holding a file named daily_ohlcv, a directory
\* intraday with a data file and a directory daily-ohlcv with no data file,
\* create_views returned the one name intraday
C16_Witness ==
    /\ lastRead.done
    /\ lastRead.created = <<"intraday">>
    /\ <<[column |-> "", text |-> "daily_ohlcv"]>> \in DOMAIN files
    /\ <<[column |-> "", text |-> "daily-ohlcv"]>> \in dirs

\* C17: table_info returns exactly one entry per relation of the catalog:
\* the row count, the column count and the column names for a relation
\* whose files are there, and the error text for a relation whose query
\* fails (its files were removed after the view was created), the entries
\* of the other relations being unaffected.
C17_OneEntryPerRelation ==
    lastRead.infoDone =>
        /\ Len(lastRead.info) = Cardinality(views)
        /\ {lastRead.info[i].name : i \in 1..Len(lastRead.info)} = views
        /\ \A i \in 1..Len(lastRead.info) :
              LET e == lastRead.info[i]
              IN IF e.name \in DataDirs
                 THEN /\ e.keys = {"name", "rows", "columns", "column_names"}
                      /\ e.rows = 2
                      /\ e.columns = 11
                      /\ e.column_names =
                            <<"date", "open", "high", "low", "close", "adjusted_close",
                              "volume", "ingested_at", "symbol", "source", "year">>
                 ELSE /\ e.keys = {"name", "error"}
                      /\ e.error # ""

\* C17 witness: of two relations one lost its files after the views were
\* created; table_info returned an error entry for it and the counts for the
\* other
C17_Witness ==
    /\ lastRead.infoDone
    /\ Len(lastRead.info) = 2
    /\ \E i, j \in 1..2 :
          /\ lastRead.info[i].keys = {"name", "error"}
          /\ lastRead.info[j].keys = {"name", "rows", "columns", "column_names"}
          /\ lastRead.info[j].rows = 2

\* the table row the matrix printed for AAPL and the two series it is about
AaplRow == CHOOSE r \in Range(result.table) : r.symbol = "AAPL"

FirstSeries == IF df.store.relation THEN df.store.series[<<"AAPL", df.sources[1]>>] ELSE <<>>

SecondSeries == IF df.store.relation THEN df.store.series[<<"AAPL", df.sources[2]>>] ELSE <<>>

DatesIn(rows) == {rows[i].date : i \in 1..Len(rows)}

\* the largest |close_a - close_b| / close_a x 100 over the common dates is
\* x thousandths of a per cent, up to the rounding of the third decimal
IsMaxCloseDiff(x, a, b) ==
    LET pairs == {<<i, j>> \in (1..Len(a)) \X (1..Len(b)) : a[i].date = b[j].date}
        Diff(p) == IF a[p[1]].close >= b[p[2]].close
                   THEN a[p[1]].close - b[p[2]].close
                   ELSE b[p[2]].close - a[p[1]].close
    IN /\ \A p \in pairs : 2 * 100000 * Diff(p) <= (2 * x + 1) * a[p[1]].close
       /\ \E p \in pairs : 2 * 100000 * Diff(p) >= (2 * x - 1) * a[p[1]].close

\* C18: in the matrix the overlap of a symbol is |dates_a n dates_b| /
\* |dates_a u dates_b| x 100 and the max close difference the largest
\* |close_a - close_b| / close_a x 100 over the common dates, of the first
\* two listed sources whatever further source is listed; disjoint date sets
\* give 0%, identical date sets 100%, identical dates and closes a
\* difference of 0%.
C18_MatrixComparesFirstTwoSources ==
    (pc = "done" /\ Len(FirstSeries) > 0 /\ Len(SecondSeries) > 0) =>
        LET A == DatesIn(FirstSeries)
            B == DatesIn(SecondSeries)
            row == AaplRow
        IN /\ row.overlap_pct.shown
           /\ 2 * 1000 * Cardinality(A \cap B)
                 <= (2 * row.overlap_pct.value + 1) * Cardinality(A \cup B)
           /\ 2 * 1000 * Cardinality(A \cap B)
                 >= (2 * row.overlap_pct.value - 1) * Cardinality(A \cup B)
           /\ A \cap B = {} => row.overlap_pct.value = 0
           /\ A = B => row.overlap_pct.value = 1000
           /\ row.max_diff.shown <=> A \cap B # {}
           /\ A \cap B # {} => IsMaxCloseDiff(row.max_diff.value, FirstSeries, SecondSeries)
           /\ FirstSeries = SecondSeries => row.max_diff.value = 0

\* C18 witness: with three sources listed, the third holding other dates and
\* closes, the first two share one of three dates and differ by one per cent
C18_Witness ==
    /\ pc = "done"
    /\ Len(df.sources) = 3
    /\ df.store.relation
    /\ Len(df.store.series[<<"AAPL", "alpha_vantage">>]) > 0
    /\ Len(FirstSeries) = 2 /\ Len(SecondSeries) = 1
    /\ AaplRow.overlap_pct = [shown |-> TRUE, value |-> 500]
    /\ AaplRow.max_diff = [shown |-> TRUE, value |-> 1000]

\* the series of symbol and source in the store the command read, empty
\* where the store has no relation
StoredSeries(symbol, source) ==
    IF df.store.relation THEN df.store.series[<<symbol, source>>] ELSE <<>>

\* the matrix has one row per symbol, with the row count of every source
\* and placeholders exactly when one of the first two series is empty
MatrixIsComplete ==
    /\ ~result.raised
    /\ Len(result.table) = Len(df.symbols)
    /\ \A i \in 1..Len(df.symbols) :
          LET row == result.table[i]
              a == StoredSeries(df.symbols[i], df.sources[1])
              b == StoredSeries(df.symbols[i], df.sources[2])
          IN /\ row.symbol = df.symbols[i]
             /\ \A j \in 1..Len(df.sources) :
                   row.row_counts[j] = Len(StoredSeries(df.symbols[i], df.sources[j]))
             /\ row.overlap_pct.shown <=> (Len(a) > 0 /\ Len(b) > 0)
             /\ (Len(a) = 0 \/ Len(b) = 0) => ~row.max_diff.shown

\* the comparison lists every source and every pair of sources, a pair
\* skipped with the notice exactly when one of its series is empty
CompareIsComplete ==
    /\ ~result.raised
    /\ Len(result.coverage) = Len(df.sources)
    /\ \A i \in 1..Len(df.sources) :
          result.coverage[i] = [source |-> df.sources[i],
                                rows |-> Len(StoredSeries(df.symbol, df.sources[i]))]
    /\ \A i \in 1..Len(df.sources) : \A j \in (i + 1)..Len(df.sources) :
          \E k \in 1..Len(result.pairs) :
              /\ result.pairs[k].src_a = df.sources[i]
              /\ result.pairs[k].src_b = df.sources[j]
              /\ result.pairs[k].skipped <=>
                    (Len(StoredSeries(df.symbol, df.sources[i])) = 0
                     \/ Len(StoredSeries(df.symbol, df.sources[j])) = 0)

\* C19 as stated: in compare and in matrix an empty or unavailable series
\* (missing relation, source or symbol) is no data and never raises, the
\* pair is skipped or shown with placeholders and a row count of 0, and the
\* remaining sources, pairs and symbols are still processed.
C19_Original_UnavailableSeriesNeverRaises ==
    pc = "done" =>
        IF df.command = "matrix" THEN MatrixIsComplete ELSE CompareIsComplete

\* C19: the matrix treats an empty or unavailable series as no data, with
\* placeholders and a row count of 0, and still processes the other
\* symbols; the comparison does so for a missing source or symbol, skipping
\* the pair and still comparing the others, and raises when the relation
\* is missing.
C19_UnavailableSeriesIsNoDataExceptMissingRelationInCompare ==
    pc = "done" =>
        IF df.command = "matrix" THEN MatrixIsComplete
        ELSE IF df.store.relation THEN CompareIsComplete
        ELSE result.raised /\ result.pairs = <<>>

\* C19 witness: of three compared sources the second has no rows; its two
\* pairs are skipped and the pair of the first and the third is compared
C19_Witness ==
    /\ pc = "done"
    /\ df.command = "compare"
    /\ df.store.relation
    /\ Len(df.sources) = 3
    /\ Len(StoredSeries("AAPL", "stooq")) = 0
    /\ Len(result.pairs) = 3
    /\ result.pairs[1].skipped /\ result.pairs[3].skipped
    /\ ~result.pairs[2].skipped
    /\ result.pairs[2].common = 1

\* the comparison of the first two sources in the printed summary
FirstPair == result.pairs[1]

\* a of the first series and b of the second differ by more than tolerance
\* per cent of a in one of the four price columns (prices are positive)
OverTolerance(a, b) ==
    \E col \in {"open", "high", "low", "close"} :
        \/ 100 * (a[col] - b[col]) > df.tolerance * a[col]
        \/ 100 * (b[col] - a[col]) > df.tolerance * a[col]

\* C20: for two non-empty series the reported number of dates over
\* tolerance is the number of rows of the inner join by date on which at
\* least one of open, high, low, close has |a - b| / a x 100 strictly over
\* tolerance: a row counts once however many columns exceed, a date of one
\* series only never counts, and where no series holds a date twice the
\* number is that of the common dates with such a difference.
C20_CountsJoinedRowsOverTolerance ==
    (pc = "done" /\ ~result.raised /\ ~FirstPair.skipped) =>
        LET a == StoredSeries(df.symbol, df.sources[1])
            b == StoredSeries(df.symbol, df.sources[2])
            over == {<<i, j>> \in (1..Len(a)) \X (1..Len(b)) :
                        a[i].date = b[j].date /\ OverTolerance(a[i], b[j])}
            once(q) == \A i \in 1..Len(q) : \A j \in 1..Len(q) :
                          q[i].date = q[j].date => i = j
        IN /\ FirstPair.exceed_count = Cardinality(over)
           /\ (once(a) /\ once(b)) =>
                 FirstPair.exceed_count =
                   Cardinality({d \in DatesIn(a) \cap DatesIn(b) :
                       \E p \in over : a[p[1]].date = d})

\* C20 witness: two common dates at tolerance 1, on one the open and the
\* high are 2% apart, on the other the open is exactly 1% apart: one date
\* is reported
C20_Witness ==
    /\ pc = "done"
    /\ df.command = "compare"
    /\ df.store.relation
    /\ df.tolerance = 1
    /\ StoredSeries("AAPL", "yfinance")
         = <<Quote(8, 100, 100, 100, 100), Quote(9, 100, 100, 100, 100)>>
    /\ StoredSeries("AAPL", "stooq")
         = <<Quote(8, 102, 102, 100, 100), Quote(9, 101, 100, 100, 100)>>
    /\ FirstPair.common = 2
    /\ FirstPair.exceed_count = 1

\* the data rows of the payload normalize was given
PayloadRows == IF df.payload.format = "csv" THEN df.payload.lines ELSE df.payload.series

\* normalize returned a frame
Returned == pc = "done" /\ result.check_name = "normalize" /\ ~result.raised

\* the payload supplies an adjusted price: never for stooq, by an adjusted
\* close column for yfinance, by the field of some date for alpha_vantage
SuppliesAdjusted ==
    CASE df.source = "stooq" -> FALSE
      [] df.source = "yfinance" ->
           Range(df.payload.header) \cap {"Adj Close", "Adj. Close", "Adjusted Close"} # {}
      [] OTHER -> \E i \in 1..Len(df.payload.series) :
                     df.payload.series[i].values.adjusted # NoField

\* C21: for every supported source the columns of normalize's output are
\* the canonical schema plus symbol, every row has the source id and the
\* requested symbol, there are as many rows as data rows in the payload,
\* and adjusted_close equals close in every row when the source supplies
\* no adjusted price (always for stooq, for the others when the payload has
\* no adjusted-close field).
C21_OutputIsCanonical ==
    Returned =>
        /\ df.source \in {"yfinance", "alpha_vantage", "stooq"}
        /\ result.columns = <<"date", "open", "high", "low", "close", "adjusted_close",
                              "volume", "source", "ingested_at", "symbol">>
        /\ \A i \in 1..Len(result.rows) :
              /\ DOMAIN result.rows[i] = Range(result.columns)
              /\ result.rows[i].source = df.source
              /\ result.rows[i].symbol = df.symbol
        /\ Len(result.rows) = Len(PayloadRows)
        /\ ~SuppliesAdjusted =>
              \A i \in 1..Len(result.rows) :
                  result.rows[i].adjusted_close = result.rows[i].close

\* C21 witness: a stooq file of two data lines became two rows of MSFT
\* from stooq with the adjusted close 149.50 of the close
C21_Witness ==
    /\ Returned
    /\ df.source = "stooq" /\ df.symbol = "MSFT"
    /\ Len(df.payload.lines) = 2
    /\ Len(result.rows) = 2
    /\ result.rows[1].close = 14950 /\ result.rows[1].adjusted_close = 14950
    /\ result.rows[1].symbol = "MSFT"

\* the dates of the rows never descend
Ascending(rows) == \A i \in 1..(Len(rows) - 1) : rows[i].date <= rows[i + 1].date

\* the date a payload row stands for
PayloadDate(r) == IF r.date \in PlainDateTexts THEN ToDate(r.date) ELSE ToDatetimeDate(r.date)

\* C22 as stated: for every supported source the rows normalize returns
\* are in ascending date order.
C22_Original_AlwaysAscending == Returned => Ascending(result.rows)

\* C22: the rows normalize returns for alpha_vantage and stooq are in
\* ascending date order whatever the order of the payload; for yfinance
\* they are in the order of the payload, ascending when the payload is.
C22_AscendingExceptUnsortedYfinancePayload ==
    Returned =>
        IF df.source = "yfinance"
        THEN /\ \A i \in 1..Len(result.rows) :
                   result.rows[i].date = PayloadDate(PayloadRows[i])
             /\ Ascending(result.rows)
                   <=> \A i \in 1..(Len(PayloadRows) - 1) :
                         PayloadDate(PayloadRows[i]) <= PayloadDate(PayloadRows[i + 1])
        ELSE Ascending(result.rows)

\* C22 witness: a stooq file with 2024-01-03 before 2024-01-02 came back
\* with 2024-01-02 first
C22_Witness ==
    /\ Returned
    /\ df.source = "stooq"
    /\ Len(PayloadRows) = 2
    /\ PayloadRows[1].date = "2024-01-03" /\ PayloadRows[2].date = "2024-01-02"
    /\ result.rows[1].date = 8 /\ result.rows[2].date = 9

\* the payload has no data: no line in a CSV file, no or an empty section
\* "Time Series (Daily)" in a JSON file
LacksData ==
    IF df.payload.format = "csv" THEN Len(df.payload.lines) = 0
    ELSE ~df.payload.section \/ Len(df.payload.series) = 0

\* C23 as stated: normalize fails with a NormalizationError and returns no
\* rows when the payload lacks its data section; it never returns an empty
\* or partial row set for such a payload.
C23_Original_NormalizationErrorWithoutData ==
    (pc = "done" /\ df.source \in NORMALIZERS /\ LacksData) =>
        result.raised /\ result.error = "NormalizationError"

\* C23: an Alpha Vantage payload without a non-empty "Time Series (Daily)"
\* makes normalize raise ValueError, a yfinance file without data lines
\* makes it raise, and so does a stooq file without the six columns; a
\* stooq file of the header alone gives a frame without rows; whenever
\* normalize raises it returns no rows.
C23_FailsWithoutDataExceptStooqHeader ==
    pc = "done" =>
        /\ result.raised => result.rows = <<>>
        /\ (df.source \in NORMALIZERS /\ LacksData) =>
              CASE df.source = "alpha_vantage" -> result.raised /\ result.error = "ValueError"
                [] df.source = "yfinance" ->
                     result.raised
                     /\ result.error \in {"NoDataError", "ColumnNotFoundError", "IndexError"}
                [] OTHER ->
                     IF {"Date", "Open", "High", "Low", "Close", "Volume"}
                            \subseteq Range(df.payload.header)
                     THEN ~result.raised /\ result.rows = <<>>
                     ELSE result.raised
                          /\ result.error \in {"NoDataError", "ColumnNotFoundError"}

\* C23 witness: an Alpha Vantage file without the section made normalize
\* raise ValueError
C23_Witness ==
    /\ pc = "done"
    /\ df.source = "alpha_vantage"
    /\ ~df.payload.section
    /\ result.raised /\ result.error = "ValueError"
    /\ result.rows = <<>>

\* two rows of the row set share source and date
HasDuplicate(rows) ==
    \E i \in 1..Len(rows) : \E j \in 1..Len(rows) :
        /\ i # j
        /\ rows[i].date # NullDate
        /\ rows[i].date = rows[j].date
        /\ rows[i].source = rows[j].source

\* the statuses of the four results of a report
Statuses(rep) == [i \in 1..Len(rep.results) |-> rep.results[i].status]

\* C24 as stated: a row set of one symbol in which two rows share source
\* and date gets a WARN or FAIL result from run_all_checks because of the
\* duplicate.
C24_Original_DuplicateGetsWarnOrFail ==
    (pc = "done" /\ HasDuplicate(df) /\ report # NoReport) =>
        \E i \in 1..Len(report.results) : report.results[i].status \in {WARN, FAIL}

\* C24: no check of run_all_checks looks at duplicates: the statuses of the
\* report of a row set with two rows of one source and date are those of
\* any row set with the same rows, each once or several times.
C24_DuplicateChangesNoStatus ==
    (pc = "done" /\ HasDuplicate(df) /\ report # NoReport) =>
        \A other \in RunFrames :
            Range(other) = Range(df) =>
                \E nan_greater \in BOOLEAN :
                    LET out == run_all_checks(other, "AAPL", today, nan_greater)
                    IN out.report # NoReport /\ Statuses(out.report) = Statuses(report)

\* C24 witness: the row of Tuesday 2024-01-09 twice, checked on that day,
\* passed all four checks
C24_Witness ==
    /\ pc = "done"
    /\ today = 15
    /\ Len(df) = 2 /\ df[1] = df[2] /\ df[1].date = 15
    /\ HasDuplicate(df)
    /\ report # NoReport
    /\ Statuses(report) = <<PASS, PASS, PASS, PASS>>

\* the groups of the frame of writer w
KeysOf(w) == GroupKeys(WithYear(df[w]))

BothDone == \A w \in Writers : pc[w].step = "done"

\* C25: two overlapping write_partitioned invocations with rows for the
\* same (symbol, source, year) group are not ordered: when both have
\* returned, the file of a group holds the rows one of the invocations had
\* for it (or, written by both at once, no readable row set), never rows
\* of both; which invocation it is differs from run to run and from group
\* to group.
C25_SharedGroupHoldsRowsOfOneInvocation ==
    BothDone =>
        /\ \A w \in Writers : Range(result[w]) = {OutPath("daily_ohlcv", k) : k \in KeysOf(w)}
        /\ \A k \in KeysOf("A") \cup KeysOf("B") :
              LET path == OutPath("daily_ohlcv", k)
              IN /\ path \in DOMAIN files
                 /\ \/ \E w \in Writers : k \in KeysOf(w) /\ files[path] = ContentOf(w, k)
                    \/ k \in KeysOf("A") \cap KeysOf("B") /\ files[path] = TornFile

\* C25 witness: both invocations held rows of 2023 and of 2024; after both
\* returned the file of 2023 holds the rows of A and that of 2024 those of B
C25_Witness ==
    /\ BothDone
    /\ Cardinality(KeysOf("A") \cap KeysOf("B")) = 2
    /\ ContentOf("A", <<"AAPL", "yfinance", 2023>>) # ContentOf("B", <<"AAPL", "yfinance", 2023>>)
    /\ files[OutPath("daily_ohlcv", <<"AAPL", "yfinance", 2023>>)]
         = ContentOf("A", <<"AAPL", "yfinance", 2023>>)
    /\ files[OutPath("daily_ohlcv", <<"AAPL", "yfinance", 2024>>)]
         = ContentOf("B", <<"AAPL", "yfinance", 2024>>)

\* the entries process_run has to handle: for each listed symbol with a
\* daily file, the file of the latest date
ExpectedRawFiles ==
    IF ~df.raw.source_dir THEN <<>>
    ELSE LET has(x) == df.raw.symbol_dirs[x].exists
                       /\ \E f \in df.raw.symbol_dirs[x].entries : f.kind = "daily"
             latest(x) == CHOOSE f \in df.raw.symbol_dirs[x].entries :
                             /\ f.kind = "daily"
                             /\ \A g \in df.raw.symbol_dirs[x].entries :
                                   g.kind = "daily" => g.day <= f.day
             kept == SelectSeq(df.symbols, has)
         IN [j \in 1..Len(kept) |-> [symbol |-> kept[j], file |-> latest(kept[j])]]

\* the number of lines of one kind and symbol printed so far
LinesOf(kind, symbol) ==
    Cardinality({j \in 1..Len(result.lines) :
        result.lines[j].kind = kind /\ result.lines[j].symbol = symbol})

\* the partitions of the entries handled without error
RECURSIVE SumOfPaths(_)
SumOfPaths(handled) ==
    IF Len(handled) = 0 THEN 0
    ELSE (IF Head(handled).ok THEN Len(Head(handled).paths) ELSE 0)
         + SumOfPaths(Tail(handled))

\* the loop handles the entries in order, each once; an error is one line
\* for its symbol and the loop goes on; the count is that of the symbols
\* without error; after the last entry comes the line "Done"
HandlesEachPairOnce ==
    pc \in {"loop", "done"} =>
        /\ result.raw_files = ExpectedRawFiles
        /\ Len(result.handled) = result.i - 1
        /\ pc = "loop" => result.i <= Len(result.raw_files)
        /\ pc = "done" => Len(result.handled) = Len(result.raw_files)
        /\ \A j \in 1..Len(result.handled) :
              /\ result.handled[j].symbol = result.raw_files[j].symbol
              /\ result.handled[j].day = result.raw_files[j].file.day
              /\ ~result.handled[j].ok => result.handled[j].paths = <<>>
        /\ \A x \in {"AAPL", "MSFT"} :
              LinesOf("error", x)
                = Cardinality({j \in 1..Len(result.handled) :
                                 result.handled[j].symbol = x /\ ~result.handled[j].ok})
        /\ result.total_written = SumOfPaths(result.handled)
        /\ pc = "done" <=> result.lines[Len(result.lines)].kind = "done"
        /\ pc = "done" => result.lines[Len(result.lines)].n = result.total_written

\* C26 as stated: process_run handles each (symbol, most recent raw daily
\* file) pair exactly once, an error of one symbol is reported for it, not
\* retried and does not stop the others, the final count holds only the
\* partitions of the symbols that succeeded, and the command always
\* reaches its final "Done" line.
C26_Original_AlwaysReachesDone == HandlesEachPairOnce /\ pc # "exit"

\* C26: the same, the command reaching its final "Done" line whenever a raw
\* file was found; without any raw file it exits before the loop and
\* prints no "Done" line.
C26_EachPairOnceAndDoneWhenFilesFound ==
    /\ HandlesEachPairOnce
    /\ pc = "exit" => /\ ExpectedRawFiles = <<>>
                      /\ result.lines = <<NoFilesLine>>
    /\ (pc \in {"loop", "done"}) => ExpectedRawFiles # <<>>

\* C26 witness: the latest file of AAPL could not be normalized, that of
\* MSFT was written; one error line, one partition counted, then "Done"
C26_Witness ==
    /\ pc = "done"
    /\ result.check_name = "process_run"
    /\ df.symbols = <<"AAPL", "MSFT">>
    /\ Len(result.handled) = 2
    /\ ~result.handled[1].ok /\ result.handled[1].day = 9
    /\ result.handled[2].ok /\ result.handled[2].day = 9
    /\ LinesOf("error", "AAPL") = 1
    /\ result.total_written = 1
    /\ result.lines[Len(result.lines)] = DoneLine(1)

\* the largest number of missing weekdays that follow one another in the
\* weekday calendar, no weekday between them being present
LongestConsecutive(M) ==
    MaxOf({0} \cup
          {Cardinality({x \in M : a <= x /\ x <= b}) :
             <<a, b>> \in {ab \in M \X M :
                 /\ ab[1] <= ab[2]
                 /\ \A d \in ab[1]..ab[2] : IsWeekday(d) => d \in M}})

\* C27 as stated: whenever check_trading_day_gaps returns FAIL for a
\* non-empty input, the input is missing more than 3 weekdays that are
\* consecutive in the weekday calendar.
C27_Original_FailOnlyOnConsecutiveGap ==
    (Done("trading_day_gaps") /\ Len(df) > 0 /\ result.status = FAIL) =>
        LongestConsecutive(MissingWeekdays(df)) > 3

\* C27: check_trading_day_gaps returns FAIL whenever more than 3 weekdays
\* consecutive in the weekday calendar are missing, and whenever it returns
\* FAIL for a non-empty input more than 3 weekdays are missing between the
\* first and the last date, each at most 3 calendar days after another
\* missing one; present days may lie between them.
C27_FailOnChainedGap ==
    (Done("trading_day_gaps") /\ Len(df) > 0) =>
        LET M == MissingWeekdays(df)
        IN /\ LongestConsecutive(M) > 3 => result.status = FAIL
           /\ result.status = FAIL =>
                 /\ Cardinality(M) > 3
                 /\ \E a \in M : \E b \in M :
                       /\ a < b
                       /\ Cardinality({x \in M : a <= x /\ x <= b}) > 3
                       /\ \A x \in M : (a <= x /\ x < b) =>
                             \E y \in M : y > x /\ y - x <= 3
           /\ (M # {} /\ LongestConsecutive(M) <= 3 /\ Cardinality(M) <= 3) =>
                 result.status = WARN

\* C27 witness: Monday 01-01, Wednesday 01-03 and Tuesday 01-09 are present;
\* Tuesday 01-02 and Thursday 01-04, Friday 01-05, Monday 01-08 are missing:
\* FAIL with at most 3 consecutive weekdays missing
C27_Witness ==
    /\ Done("trading_day_gaps")
    /\ DatesOf(df) = {7, 9, 15}
    /\ LongestConsecutive(MissingWeekdays(df)) = 3
    /\ result.status = FAIL

\* open or close of the row lies outside [low, high]
OutsideRange(r) == r.open > r.high \/ r.open < r.low \/ r.close > r.high \/ r.close < r.low

\* the row meets the four conditions check_price_sanity tests
MeetsTestedConditions(r) ==
    /\ r.open >= 0 /\ r.high >= 0 /\ r.low >= 0 /\ r.close >= 0
    /\ r.high >= r.low
    /\ r.close # 0
    /\ r.volume >= 0

\* C28 as stated: a row whose open or close is above high or below low
\* (with non-negative prices, high >= low, close # 0 and volume >= 0) makes
\* check_price_sanity return FAIL.
C28_Original_OpenCloseOutsideRangeFails ==
    (Done("price_sanity")
     /\ \E i \in 1..Len(df) : OutsideRange(df[i]) /\ MeetsTestedConditions(df[i])) =>
        result.status = FAIL

\* C28: check_price_sanity does not compare open and close with low and
\* high: a row set whose rows all have non-negative prices, high >= low,
\* close # 0 and volume >= 0 passes, also when an open or close lies
\* outside [low, high].
C28_OpenCloseOutsideRangeIsNotChecked ==
    (Done("price_sanity") /\ \A i \in 1..Len(df) : MeetsTestedConditions(df[i])) =>
        result.status = PASS

\* C28 witness: a row with close 102 above high 100 passed
C28_Witness ==
    /\ Done("price_sanity")
    /\ Len(df) = 1
    /\ MeetsTestedConditions(df[1])
    /\ df[1].close > df[1].high
    /\ result.status = PASS

\* the report validate_run printed for AAPL
ReportOfAapl ==
    (CHOOSE e \in Range(result.reports) : e.symbol = "AAPL" /\ e.found).report

AaplPrinted ==
    /\ pc = "done"
    /\ result.check_name = "validate_run"
    /\ \E e \in Range(result.reports) : e.symbol = "AAPL" /\ e.found

\* the rows of AAPL from one source, ascending
RowsOfSource(src) == DateFrame({r.date : r \in {x \in df.table : x.symbol = "AAPL" /\ x.source = src}})

\* the dates the relation holds for AAPL, from any source
DatesOfAapl == {r.date : r \in {x \in df.table : x.symbol = "AAPL"}}

\* the overall status of run_all_checks on the rows of one source alone
StatusOfSource(src) ==
    overall_status(run_all_checks(RowsOfSource(src), "AAPL", today, FALSE).report)

\* C29: validate_run hands run_all_checks the rows of a symbol from all
\* sources together: the gap check runs over the union of their dates, so
\* no weekday present in some source is reported missing and exactly the
\* weekdays between the first and last date that no source holds are, and
\* the report is that of the union, not the worst of the sources' reports.
C29_ChecksRunOverAllSources ==
    AaplPrinted =>
        LET gaps == ReportOfAapl.results[1]
        IN /\ gaps.check_name = "trading_day_gaps"
           /\ \A d \in Range(gaps.details) : d \notin DatesOfAapl
           /\ DatesOfAapl # {} =>
                 Range(gaps.details)
                   = {d \in MinOf(DatesOfAapl)..MaxOf(DatesOfAapl) :
                        IsWeekday(d) /\ d \notin DatesOfAapl}
           /\ Statuses(ReportOfAapl)
                = Statuses(run_all_checks(DateFrame(DatesOfAapl), "AAPL", today, FALSE).report)

\* C29 witness: yfinance holds Monday and Wednesday, stooq Tuesday; the
\* report of AAPL has no gap and passes, while yfinance alone gives WARN
C29_Witness ==
    /\ AaplPrinted
    /\ DatesOf(RowsOfSource("yfinance")) = {14, 16}
    /\ DatesOf(RowsOfSource("stooq")) = {15}
    /\ ReportOfAapl.results[1].status = PASS
    /\ overall_status(ReportOfAapl) = PASS
    /\ StatusOfSource("yfinance") = WARN
    /\ StatusOfSource("stooq") # WARN

\* the step is a wait() call that raised
WaitRaised ==
    /\ result'.ncalls = result.ncalls + 1
    /\ result'.last = "RuntimeError"

\* the daily limit of the limiter in use
DailyLimit == df.limit.n

\* C30: with daily limit N at most N wait() calls return normally between
\* two resets; a wait() raises RuntimeError exactly when N have returned
\* and then leaves the daily counter and the last-call time unchanged;
\* after reset_daily() N further calls can succeed. In the ingest loop a
\* symbol whose fetch fails still uses one unit of the quota, every symbol
\* after the quota is used up is an error, each symbol gets one line and
\* the loop ends with "Done".
C30_DailyLimitBoundsNormalReturns ==
    /\ [](/\ df.limit.limited => result.returned <= DailyLimit
          /\ df.limit.limited => result.limiter.daily_count = result.returned
          /\ pc = "loop" => result.ncalls < Len(df.symbols)
          /\ pc \in {"loop", "done"} =>
                /\ result.returned = (IF df.limit.limited /\ DailyLimit < result.ncalls
                                       THEN DailyLimit ELSE result.ncalls)
                /\ \A i \in 1..result.ncalls :
                      /\ result.lines[i].symbol = df.symbols[i]
                      /\ (df.limit.limited /\ i > DailyLimit) =>
                            result.lines[i].kind = "error"
                      /\ df.symbols[i] \in df.failing => result.lines[i].kind = "error"
          /\ pc = "done" =>
                /\ result.ncalls = Len(df.symbols)
                /\ Len(result.lines) = Len(df.symbols) + 1
                /\ result.lines[Len(result.lines)].kind = "done")
    /\ [][/\ WaitRaised =>
               /\ df.limit.limited /\ result.returned = DailyLimit
               /\ result'.limiter = result.limiter
               /\ result'.returned = result.returned
          /\ (result'.ncalls = result.ncalls + 1 /\ result'.last = "returned") =>
               /\ df.limit.limited => result.returned < DailyLimit
               /\ result'.limiter.daily_count = result.limiter.daily_count + 1
               /\ result'.limiter.last_call >= result.limiter.last_call + result.limiter.interval
          /\ (df.limit.limited /\ result.returned = DailyLimit
              /\ result'.ncalls = result.ncalls + 1 /\ result'.last # "reset") =>
               result'.last = "RuntimeError"]_vars

\* C30 witness: with a daily limit of 1, a wait() returned, a second one
\* raised, reset_daily() was called and a third wait() returned
C30_Witness ==
    /\ pc = "api"
    /\ df.limit.limited /\ DailyLimit = 1
    /\ result.check_name = "rate_limiter"
    /\ result.ncalls = 4
    /\ result.last = "returned"
    /\ result.returned = 1
    /\ result.limiter.daily_count = 1
    /\ result.limiter.last_call >= 4

====
